---------------------------- MODULE Spec2Model ----------------------------
(***************************************************************************)
(* A model of the ZK-SAC consensus engine (src/src/consensus/engine.rs):   *)
(* ZkSacConsensusEngine with its pending pool, its chain and its world     *)
(* state, driven through produce_block, validate_block and apply_block;    *)
(* of its producer election (select_block_producer); of the prover         *)
(* RealZKProver (src/src/zkvm/real_proofs.rs); and of the guest program's  *)
(* state transition relation (src/src/zkvm/programs/guest_program.rs).     *)
(* Each has its own specification: Spec, PoolSpec, DriverSpec and         *)
(* RuleSpec, ElectionSpec, ProverSpec, GuestSpec.  The supporting modules  *)
(* follow: the mock LMS signer (SignerSpec), the async utilities           *)
(* (TaskPoolSpec, BatchSpec and BatchFairSpec, BackoffSpec, StreamSpec,    *)
(* RaceSpec, LoadSpec, SelectSpec), the performance monitor (MonitorSpec)  *)
(* and the hybrid serialization (HybridSpec).  A specification leaves the  *)
(* variables of the others at their initial values.                        *)
(*                                                                         *)
(* u64 quantities keep a width: every u64 addition goes through AddU64,    *)
(* which wraps modulo 2^U64Bits and reports the overflow.  Rust panics on  *)
(* the overflow when the build has overflow checks (the debug profile) and *)
(* wraps when it has none (the release profile); overflow_checks is the    *)
(* build's choice, made once in Init.                                      *)
(***************************************************************************)
EXTENDS Integers, Sequences, FiniteSets, TLC

VARIABLES
    current_state,               \* engine.current_state : WorldState
    blocks,                      \* engine.blocks : Vec<Block>
    pending_transactions,        \* engine.pending_transactions : Vec<Transaction>
    max_transactions_per_block,  \* engine.protocol_config.max_transactions_per_block
    validator_set,               \* engine.validator_set
    proposed,                    \* blocks returned by produce_block and held by the caller,
                                 \* each with whether validate_block has returned true for it
    clock,                       \* SystemTime::now(), in seconds since the epoch
    overflow_checks,             \* the build panics on integer overflow (TRUE) or wraps (FALSE)
    panicked,                    \* a panic has unwound out of the engine
    submitted,                   \* number of transactions pushed so far
    state_log,                   \* history: current_state before each applied block
    validated_log,               \* history: had the i-th applied block received validate_block = true
    usize_bits,                  \* the build target's pointer width: the bits of usize
    first_height,                \* the first height a caller elects a producer for
    selections,                  \* what select_block_producer returned for the heights
                                 \* first_height, first_height + 1, ...
    risc0,                       \* the build has the feature "risc0"
    sub_proofs,                  \* the proofs generate_state_transition_proof returned,
                                 \* each with the input it was asked for
    recursive_proof,             \* what generate_recursive_proof returned, with the
                                 \* proofs it was given; empty before the call
    prover_status,               \* "running", or how a call of the prover ended the run:
                                 \* "Err" (it returned an error) or "Panic"
    guest_input,                 \* the StateTransitionInput the guest program reads
    guest_output,                \* what verify_state_transition made of it; empty before
    default_feature,             \* the build has the feature "default"
    lms_signatures,              \* the sign_lms calls made so far, each with its result
                                 \* and, once verify_lms was asked, that result
    max_concurrent,              \* AsyncTaskPool.max_concurrent
    semaphore,                   \* the permits AsyncTaskPool.semaphore has available
    pool_calls,                  \* each AsyncTaskPool::execute call: "idle" before it is
                                 \* made, "acquiring", "awaiting" its spawned task, then
                                 \* "Ok", "Err" or "cancelled" (its future was dropped)
    pool_tasks,                  \* the task each call spawned: "none", "running", then
                                 \* "ok", "err" or "panic"
    batch_size,                  \* BatchProcessor.batch_size
    timeout_duration,            \* BatchProcessor.timeout_duration, in ticks of the clock
    channel,                     \* the items sent to the processor and not yet received
    current_batch,               \* the processing loop's current_batch
    sleep_elapsed,               \* ticks since the loop armed the sleep of its select!
    last_batch_elapsed,          \* last_batch_time.elapsed(), in ticks
    handled,                     \* the batches passed to the handler, in order
    items_sent,                  \* number of add_item calls so far
    first_item_age,              \* history: ticks since the first item of current_batch
                                 \* was received
    handler_results,             \* what the handler returned for each batch of handled
    sender_dropped,              \* whether the BatchProcessor, and with it the only
                                 \* sender of the channel, has been dropped
    loop_state,                  \* "idle" before start_processing, "running" while the
                                 \* spawned loop runs, "ended" after its break
    max_retries,                 \* execute_with_backoff's max_retries
    current_timeout,             \* its current_timeout, in milliseconds
    invocations,                 \* the task() calls it made: the timeout each ran under
                                 \* and how it ended ("ok", "err" or "timeout")
    backoff_result,              \* "running", or what the call returned ("Ok", "Err"),
                                 \* or "Panic"
    benchmarks,                  \* PerformanceMonitor.benchmarks
    error_counts,                \* PerformanceMonitor.error_counts, absent keys at 0
    record_error_calls,          \* history: number of record_error calls so far
    hybrid_value,                \* the value x handed to encode_hybrid
    debug_mode,                  \* encode_hybrid's debug_mode
    hybrid_encoded,              \* the bytes encode_hybrid returned; empty before
    hybrid_decoded,              \* what decode_hybrid made of them; empty before
    stream,                      \* the items process_stream's stream has yet to yield
    stream_max_concurrent,       \* process_stream's max_concurrent
    failing_items,               \* the items for which processor returns Err
    buffer,                      \* the items whose futures are in buffer and pending
    completed,                   \* the items whose futures in buffer have completed and
                                 \* not been yielded by buffer.next(), in completion order
    active_count,                \* process_stream's active_count
    results,                     \* process_stream's results
    held_item,                   \* the item taken from the stream while the call waits
                                 \* for a slot; empty otherwise
    stream_pc,                   \* where the call is: "select", "slot" (waiting for a
                                 \* slot), "drain", or returned "Ok" / "Err"
    race_futures,                \* the futures handed to race_first_success: what each
                                 \* completes with ("Ok", "Err"), or "Never"
    race_result,                 \* what race_first_success returned, with the index of
                                 \* the future it came from (0: none); empty before
    task_count,                  \* execute_load_balanced's task_count
    load_max_concurrent,         \* execute_load_balanced's max_concurrent
    handles,                     \* the tasks spawned so far: "running", or how each ended
    load_results,                \* the handles execute_with_timeout has awaited
    load_pc,                     \* where the call is: "spawning", "awaiting", or
                                 \* returned "Ok" / "Err"
    select_futures,              \* the two futures of select_with_timeout: the tick at
                                 \* which each completes and with what, or "Never"
    select_timeout,              \* select_with_timeout's timeout_duration, in ticks
    select_elapsed,              \* the ticks passed since the call
    select_result                \* what select_with_timeout returned and at which tick;
                                 \* empty before

engine_vars == <<current_state, blocks, pending_transactions, max_transactions_per_block,
                 validator_set, proposed, clock, overflow_checks, panicked, submitted,
                 state_log, validated_log>>

election_vars == <<usize_bits, first_height, selections>>

prover_vars == <<risc0, sub_proofs, recursive_proof, prover_status>>

guest_vars == <<guest_input, guest_output>>

signer_vars == <<default_feature, lms_signatures>>

\* the variables of the crypto, async, performance and serialization modules
pool_vars == <<max_concurrent, semaphore, pool_calls, pool_tasks>>

batch_vars == <<batch_size, timeout_duration, channel, current_batch, sleep_elapsed,
                last_batch_elapsed, handled, items_sent, first_item_age, handler_results,
                sender_dropped, loop_state>>

backoff_vars == <<max_retries, current_timeout, invocations, backoff_result>>

monitor_vars == <<benchmarks, error_counts, record_error_calls>>

hybrid_vars == <<hybrid_value, debug_mode, hybrid_encoded, hybrid_decoded>>

stream_vars == <<stream, stream_max_concurrent, failing_items, buffer, completed,
                 active_count, results, held_item, stream_pc>>

race_vars == <<race_futures, race_result>>

load_vars == <<task_count, load_max_concurrent, handles, load_results, load_pc>>

select_vars == <<select_futures, select_timeout, select_elapsed, select_result>>

support_vars == <<signer_vars, pool_vars, batch_vars, backoff_vars, monitor_vars,
                  hybrid_vars, stream_vars, race_vars, load_vars, select_vars>>

vars == <<engine_vars, election_vars, prover_vars, guest_vars, support_vars>>

-----------------------------------------------------------------------------
(* Bounds of the model *)

U64Bits == 26          \* width standing for the 64 bits of u64
MaxSubmitted == 2      \* transactions pushed into the pool over a run
MaxBlocks == 2         \* blocks produced over a run, applied or held by the caller
MaxClock == 1          \* seconds the clock advances
MaxTxPerBlock == 2     \* largest max_transactions_per_block configured
MaxValidators == 3     \* longest validator list
MaxFirstHeight == 3    \* largest height an election run starts at
MaxSelections == 6     \* heights of an election run
MaxProofs == 3         \* state-transition proofs generated over a run
MaxGuestTxs == 2       \* transactions of a batch the guest program reads
MaxRules == 1          \* protocol rules a caller attaches to one block
MaxMessageLen == 2     \* bytes of a message handed to the signer
MaxSignatures == 2     \* sign_lms calls of a run
MaxConcurrent == 2     \* largest max_concurrent a pool is built with
MaxCalls == 3          \* AsyncTaskPool::execute calls of a run
MaxBatchSize == 3      \* largest batch_size of a BatchProcessor
MaxTimeout == 2        \* largest timeout_duration, in ticks
MaxItems == 3          \* items added to a BatchProcessor over a run
MaxRetries == 3        \* largest max_retries given to execute_with_backoff
MaxErrors == 4         \* record_error calls of a run
MaxBenchmarks == 2     \* create_benchmark calls of a run
MaxVecLen == 3         \* longest Vec<u8> handed to encode_hybrid
MaxStream == 3         \* items of a stream handed to process_stream
MaxFutures == 3        \* futures handed to race_first_success
MaxTasks == 3          \* largest task_count given to execute_load_balanced
MaxDelay == 3          \* latest tick at which a future of select_with_timeout
                       \* completes; larger than MaxTimeout

(* Program constants *)

BLOCK_GAS_LIMIT == 30000000     \* create_block_header: gas_limit
TX_GAS_LIMIT == 21000           \* Transaction::new: gas_limit
GENESIS_BALANCE == 1000         \* test_full_consensus_flow: Account::new(1000)
LMS_SIGNATURE_LEN == 1024       \* sign_lms: vec![0u8; 1024]
LMS_MARKER == 170               \* sign_lms: signature[8] = 0xAA
LMS_MIN_LEN == 41               \* verify_lms: signature.len() >= 41

U64Max == 2^U64Bits - 1

\* a drain of the whole pool, whatever the cap
MinDrainsPool(a, b) == b

Min(a, b) == IF a <= b THEN a ELSE b

-----------------------------------------------------------------------------
(* u64 arithmetic *)

\* a + b on u64: the wrapped sum and whether it overflowed.
AddU64(a, b) == [value |-> (a + b) % (U64Max + 1), overflow |-> a + b > U64Max]

-----------------------------------------------------------------------------
(* Hashes.  A digest is the algorithm applied to its input, so that two    *)
(* digests are equal exactly when algorithm and input are.                 *)

\* BlockHash::zero()
ZeroHash == [alg |-> "zero", data |-> <<>>]

\* blake3_hash
blake3_hash(data) == [alg |-> "blake3", data |-> data]

\* bincode::serialize: the tagged value, one byte string per value
bincode(x) == <<"bincode", x>>

\* compute_consensus_hash: (blake3, keccak256, sha3-256) of the same bytes
compute_consensus_hash(data) ==
    <<blake3_hash(data), [alg |-> "keccak256", data |-> data],
      [alg |-> "sha3_256", data |-> data]>>

RECURSIVE MerkleLevel(_)
\* one pass of merkle_root's while loop: hash the pairs, promote an odd last node
MerkleLevel(level) ==
    IF Len(level) = 0 THEN <<>>
    ELSE IF Len(level) = 1 THEN <<level[1]>>
    ELSE <<blake3_hash(<<level[1], level[2]>>)>>
         \o MerkleLevel(SubSeq(level, 3, Len(level)))

RECURSIVE MerkleReduce(_)
MerkleReduce(level) ==
    IF Len(level) <= 1 THEN level[1] ELSE MerkleReduce(MerkleLevel(level))

\* crypto::hash::merkle_root
merkle_root(leaves) ==
    IF Len(leaves) = 0 THEN ZeroHash
    ELSE IF Len(leaves) = 1 THEN blake3_hash(leaves[1])
    ELSE MerkleReduce([i \in 1..Len(leaves) |-> blake3_hash(leaves[i])])

\* Keccak256 over the bytes fed to the hasher, update by update
keccak256(data) == [alg |-> "keccak256", data |-> data]

\* hasher.update of a 32-byte digest, and of a byte array
UpdateDigest(digest) == [digest |-> digest, bytes |-> <<>>]
UpdateBytes(bytes) == [digest |-> ZeroHash, bytes |-> bytes]

\* u64::to_le_bytes: the eight bytes, least significant first (the values of
\* the model lie below 2^32, so the upper four are 0)
to_le_bytes(x) == [i \in 1..8 |-> IF i <= 4 THEN (x \div (256^(i - 1))) % 256 ELSE 0]

\* Address::new(id).0: twenty bytes, the last one the id
AddressBytes(id) == [i \in 1..20 |-> IF i = 20 THEN id ELSE 0]

RECURSIVE XorBits(_, _, _)
\* a ^ b on integers of the given number of bits
XorBits(a, b, bits) ==
    IF bits = 0 THEN 0
    ELSE (((a % 2) + (b % 2)) % 2) + 2 * XorBits(a \div 2, b \div 2, bits - 1)

\* a ^ b on u8
XorU8(a, b) == XorBits(a, b, 8)

RECURSIVE SumU64(_)
\* Iterator::sum over u64 values: the wrapped sum and whether an addition overflowed
SumU64(values) ==
    IF Len(values) = 0 THEN [value |-> 0, overflow |-> FALSE]
    ELSE LET rest == SumU64(SubSeq(values, 1, Len(values) - 1))
             s == AddU64(rest.value, values[Len(values)])
         IN  [value |-> s.value, overflow |-> rest.overflow \/ s.overflow]

-----------------------------------------------------------------------------
(* Types *)

Address == {1, 2, 3}            \* Address::new(1), Address::new(2), Address::new(3)

\* Account::new(balance); code and storage stay empty throughout and are left out
NewAccount(balance) == [balance |-> balance, nonce |-> 0]

\* Transaction { from, to, value, gas_limit, nonce }; data, signature and sig_type
\* are read by none of the engine's operations and are left out
TxNonces == {0, 2}
TxGasLimits == {TX_GAS_LIMIT, BLOCK_GAS_LIMIT + 1}

\* The transactions a caller pushes: transfers of 100 and of u64::MAX from a
\* funded account (1) and from an absent one (3), the transfer 2 -> 3 of 50,
\* and the transfer 1 -> 2 of 100 with each nonce and each gas limit.
Transaction ==
    [from : {1, 3}, to : {2, 3}, value : {100, U64Max},
     gas_limit : {TX_GAS_LIMIT}, nonce : {0}]
    \cup [from : {2}, to : {3}, value : {50}, gas_limit : {TX_GAS_LIMIT}, nonce : {0}]
    \cup [from : {1}, to : {2}, value : {100},
          gas_limit : TxGasLimits, nonce : TxNonces]

\* the producers a caller names in produce_block
Producers == {1, 2}

\* the genesis WorldState of test_full_consensus_flow: accounts 1 and 2 hold 1000 each
GenesisState ==
    [accounts |-> [a \in {1, 2} |-> NewAccount(GENESIS_BALANCE)],
     global_nonce |-> 0,
     state_root |-> ZeroHash,
     block_number |-> 0]

\* the validators of main: stakes 32, 16 and 8 * 10^9, in units of 8 * 10^9
InitialValidators ==
    <<[address |-> 1, stake |-> 4], [address |-> 2, stake |-> 2],
      [address |-> 3, stake |-> 1]>>

RECURSIVE SumStake(_)
SumStake(vs) == IF Len(vs) = 0 THEN 0 ELSE vs[1].stake + SumStake(Tail(vs))

\* the stakes of the tests' validators, 16, 32 and 64 * 10^9, in units of 16 * 10^9
Stakes == {1, 2, 4}

\* the validator lists a caller constructs the engine with: up to MaxValidators
\* validators Address::new(1), Address::new(2), ... in any order, each with a stake
ValidatorLists ==
    UNION {{vs \in [1..n -> [address : 1..MaxValidators, stake : Stakes]] :
                \A i, j \in 1..n : i # j => vs[i].address # vs[j].address} :
           n \in 0..MaxValidators}

\* the pointer widths of the targets, standing for 32 and 64 bits
UsizeWidths == {U64Bits \div 2, U64Bits}

\* `x as usize` of a u64 x: the low usize_bits bits
AsUsize(x) == x % (2^usize_bits)

\* the mock proof both proof generators return
MockProof == [proof_data |-> "zero32", proof_type |-> "Risc0"]

-----------------------------------------------------------------------------
(* ZkSacConsensusEngine *)

\* one iteration of the loop of execute_transactions_with_zkvm
ExecuteTransaction(st, tx) ==
    LET acc == st.accounts
        debit == tx.from \in DOMAIN acc /\ acc[tx.from].balance >= tx.value
        inc == IF debit THEN AddU64(acc[tx.from].nonce, 1)
               ELSE [value |-> 0, overflow |-> FALSE]
        a1 == IF debit
              THEN [acc EXCEPT ![tx.from] =
                        [balance |-> @.balance - tx.value, nonce |-> inc.value]]
              ELSE acc
        a2 == IF tx.to \in DOMAIN a1 THEN a1 ELSE a1 @@ (tx.to :> NewAccount(0))
        credit == AddU64(a2[tx.to].balance, tx.value)
    IN  [accounts |-> [a2 EXCEPT ![tx.to].balance = credit.value],
         overflow |-> st.overflow \/ inc.overflow \/ credit.overflow]

RECURSIVE ExecuteLoop(_, _)
ExecuteLoop(st, transactions) ==
    IF Len(transactions) = 0 THEN st
    ELSE ExecuteLoop(ExecuteTransaction(st, transactions[1]), Tail(transactions))

\* execute_transactions_with_zkvm: the new state (a clone of `state` with
\* only its accounts changed), and whether a u64 addition overflowed
execute_transactions_with_zkvm(state, transactions) ==
    LET r == ExecuteLoop([accounts |-> state.accounts, overflow |-> FALSE],
                         transactions)
    IN  [new_state |-> [state EXCEPT !.accounts = r.accounts],
         overflow |-> r.overflow]

\* get_last_block_hash
get_last_block_hash(chain) ==
    IF Len(chain) > 0
    THEN compute_consensus_hash(bincode(chain[Len(chain)].header))[1]
    ELSE ZeroHash

RECURSIVE SumGas(_)
\* transactions.iter().map(|tx| tx.gas_limit).sum()
SumGas(transactions) ==
    IF Len(transactions) = 0 THEN [value |-> 0, overflow |-> FALSE]
    ELSE LET rest == SumGas(SubSeq(transactions, 1, Len(transactions) - 1))
             s == AddU64(rest.value, transactions[Len(transactions)].gas_limit)
         IN  [value |-> s.value, overflow |-> rest.overflow \/ s.overflow]

\* a header that always links to the zero hash instead of to the tip
create_block_header_unlinked(transactions, producer) ==
    [previous_hash |-> ZeroHash,
     merkle_root |-> ZeroHash,
     state_root |-> current_state.state_root,
     timestamp |-> clock,
     block_number |-> Len(blocks) + 1,
     gas_used |-> SumGas(transactions).value,
     gas_limit |-> BLOCK_GAS_LIMIT,
     producer |-> producer]

\* create_block_header
create_block_header(transactions, producer) ==
    [previous_hash |-> get_last_block_hash(blocks),
     merkle_root |-> ZeroHash,
     state_root |-> current_state.state_root,
     timestamp |-> clock,
     block_number |-> Len(blocks) + 1,
     gas_used |-> SumGas(transactions).value,
     gas_limit |-> BLOCK_GAS_LIMIT,
     producer |-> producer]

\* validate_block's result
validate_block(block) ==
    IF block.header.previous_hash # get_last_block_hash(blocks) THEN FALSE
    ELSE IF Len(block.transactions) > max_transactions_per_block THEN FALSE
    ELSE TRUE

\* an election that reads the chain length where the code reads block_number
select_block_producer_by_chain_length(block_number) ==
    LET validators == validator_set.validators
    IN  IF Len(validators) = 0
        THEN [kind |-> "Err", address |-> 0]
        ELSE [kind |-> "Ok",
              address |-> validators[(AsUsize(Len(blocks)) % Len(validators)) + 1].address]

\* an election without the is_empty check: `%` by the length 0 panics
select_block_producer_unchecked(block_number) ==
    LET validators == validator_set.validators
    IN  IF Len(validators) = 0
        THEN [kind |-> "Panic", address |-> 0]
        ELSE [kind |-> "Ok",
              address |-> validators[(AsUsize(block_number) % Len(validators)) + 1].address]

\* select_block_producer: Err on an empty validator list, else Ok(address) of
\* validators[(block_number as usize) % len]; indexing out of bounds would panic
select_block_producer(block_number) ==
    LET validators == validator_set.validators
    IN  IF Len(validators) = 0
        THEN [kind |-> "Err", address |-> 0]
        ELSE LET index == AsUsize(block_number) % Len(validators)
             IN  IF index < Len(validators)
                 THEN [kind |-> "Ok", address |-> validators[index + 1].address]
                 ELSE [kind |-> "Panic", address |-> 0]

-----------------------------------------------------------------------------
(* The state after ZkSacConsensusEngine::new *)

\* no election has been asked for
NoElection ==
    /\ usize_bits = U64Bits
    /\ first_height = 1
    /\ selections = <<>>

\* no prover has been asked for a proof
NoProver ==
    /\ risc0 = FALSE
    /\ sub_proofs = <<>>
    /\ recursive_proof = <<>>
    /\ prover_status = "running"

\* no guest program has run: its input is the empty batch on the zero root
NoGuest ==
    /\ guest_input = [prev_state_root |-> [i \in 1..32 |-> 0], transactions |-> <<>>,
                      block_number |-> 0, timestamp |-> 0]
    /\ guest_output = <<>>

\* no PostQuantumSigner has been asked for a signature
NoSigner ==
    /\ default_feature = FALSE
    /\ lms_signatures = <<>>

\* no AsyncTaskPool has been built
NoPool ==
    /\ max_concurrent = 0
    /\ semaphore = 0
    /\ pool_calls = <<>>
    /\ pool_tasks = <<>>

\* no BatchProcessor has been built
NoBatch ==
    /\ batch_size = 1
    /\ timeout_duration = 1
    /\ channel = <<>>
    /\ current_batch = <<>>
    /\ sleep_elapsed = 0
    /\ last_batch_elapsed = 0
    /\ handled = <<>>
    /\ items_sent = 0
    /\ first_item_age = 0
    /\ handler_results = <<>>
    /\ sender_dropped = FALSE
    /\ loop_state = "idle"

\* execute_with_backoff has not been called
NoBackoff ==
    /\ max_retries = 0
    /\ current_timeout = 0
    /\ invocations = <<>>
    /\ backoff_result = "running"

\* the error types the tests and run_stress_test record
ErrorTypeList == <<"network_timeout", "proof_generation_failed", "invalid_signature">>
ErrorTypes == {ErrorTypeList[k] : k \in 1..Len(ErrorTypeList)}

\* PerformanceMonitor::new: no benchmark, no error
NoMonitor ==
    /\ benchmarks = <<>>
    /\ error_counts = [t \in ErrorTypes |-> 0]
    /\ record_error_calls = 0

\* encode_hybrid has not been called
NoHybrid ==
    /\ hybrid_value = [type |-> "Vec<u8>", bytes |-> <<>>]
    /\ debug_mode = FALSE
    /\ hybrid_encoded = <<>>
    /\ hybrid_decoded = <<>>

\* process_stream has not been called
NoStream ==
    /\ stream = <<>>
    /\ stream_max_concurrent = 0
    /\ failing_items = {}
    /\ buffer = {}
    /\ completed = <<>>
    /\ active_count = 0
    /\ results = <<>>
    /\ held_item = <<>>
    /\ stream_pc = "select"

\* execute_load_balanced has not been called
NoLoad ==
    /\ task_count = 0
    /\ load_max_concurrent = 0
    /\ handles = <<>>
    /\ load_results = 0
    /\ load_pc = "idle"

\* select_with_timeout has not been called
NoSelect ==
    /\ select_futures = <<>>
    /\ select_timeout = 0
    /\ select_elapsed = 0
    /\ select_result = <<>>

\* race_first_success has not been called
NoRace ==
    /\ race_futures = <<>>
    /\ race_result = <<>>

\* nothing outside the engine, the prover and the guest has been used,
\* the module named by `used' apart
SupportIdle(used) ==
    /\ IF used = "signer" THEN TRUE ELSE NoSigner
    /\ IF used = "pool" THEN TRUE ELSE NoPool
    /\ IF used = "batch" THEN TRUE ELSE NoBatch
    /\ IF used = "backoff" THEN TRUE ELSE NoBackoff
    /\ IF used = "monitor" THEN TRUE ELSE NoMonitor
    /\ IF used = "hybrid" THEN TRUE ELSE NoHybrid
    /\ IF used = "stream" THEN TRUE ELSE NoStream
    /\ IF used = "race" THEN TRUE ELSE NoRace
    /\ IF used = "load" THEN TRUE ELSE NoLoad
    /\ IF used = "select" THEN TRUE ELSE NoSelect

NoSupport == SupportIdle("none")

\* a step of the module `used' leaves the other modules as they are
SupportFrame(used) ==
    /\ IF used = "signer" THEN TRUE ELSE UNCHANGED signer_vars
    /\ IF used = "pool" THEN TRUE ELSE UNCHANGED pool_vars
    /\ IF used = "batch" THEN TRUE ELSE UNCHANGED batch_vars
    /\ IF used = "backoff" THEN TRUE ELSE UNCHANGED backoff_vars
    /\ IF used = "monitor" THEN TRUE ELSE UNCHANGED monitor_vars
    /\ IF used = "hybrid" THEN TRUE ELSE UNCHANGED hybrid_vars
    /\ IF used = "stream" THEN TRUE ELSE UNCHANGED stream_vars
    /\ IF used = "race" THEN TRUE ELSE UNCHANGED race_vars
    /\ IF used = "load" THEN TRUE ELSE UNCHANGED load_vars
    /\ IF used = "select" THEN TRUE ELSE UNCHANGED select_vars

core_vars == <<engine_vars, election_vars, prover_vars, guest_vars>>

Init ==
    /\ current_state = GenesisState
    /\ blocks = <<>>
    /\ pending_transactions = <<>>
    /\ max_transactions_per_block \in 1..MaxTxPerBlock
    /\ validator_set = [validators |-> InitialValidators,
                        total_stake |-> SumStake(InitialValidators)]
    /\ proposed = {}
    /\ clock = 0
    /\ overflow_checks \in BOOLEAN
    /\ panicked = FALSE
    /\ submitted = 0
    /\ state_log = <<>>
    /\ validated_log = <<>>
    /\ NoElection
    /\ NoProver
    /\ NoGuest
    /\ NoSupport

\* engine.pending_transactions.push(tx)
AddTransaction(tx) ==
    /\ ~panicked
    /\ UNCHANGED <<election_vars, prover_vars, guest_vars, support_vars>>
    /\ submitted < MaxSubmitted
    /\ pending_transactions' = Append(pending_transactions, tx)
    /\ submitted' = submitted + 1
    /\ UNCHANGED <<current_state, blocks, max_transactions_per_block, validator_set,
                   proposed, clock, overflow_checks, panicked, state_log, validated_log>>

\* produce_block: collect_transactions_for_block drains the pool first; the
\* execution and the gas sum may then panic on overflow
ProduceBlock(producer) ==
    /\ ~panicked
    /\ UNCHANGED <<election_vars, prover_vars, guest_vars, support_vars>>
    /\ Cardinality(proposed) + Len(blocks) < MaxBlocks
    /\ LET n == Min(max_transactions_per_block, Len(pending_transactions))
           transactions == SubSeq(pending_transactions, 1, n)
           exec == execute_transactions_with_zkvm(current_state, transactions)
           block == [header |-> create_block_header(transactions, producer),
                     transactions |-> transactions,
                     validator_signatures |-> <<>>,
                     recursive_proof |-> MockProof,
                     protocol_updates |-> <<>>]
       IN  /\ pending_transactions' =
                  SubSeq(pending_transactions, n + 1, Len(pending_transactions))
           /\ IF overflow_checks /\ (exec.overflow \/ SumGas(transactions).overflow)
              THEN /\ panicked' = TRUE
                   /\ proposed' = proposed
              ELSE /\ panicked' = FALSE
                   /\ proposed' = proposed \cup {[block |-> block, validated |-> FALSE]}
    /\ UNCHANGED <<current_state, blocks, max_transactions_per_block, validator_set,
                   clock, overflow_checks, submitted, state_log, validated_log>>

\* validate_block on a block the caller holds; the caller remembers a true result
ValidateBlock(p) ==
    /\ ~panicked
    /\ UNCHANGED <<election_vars, prover_vars, guest_vars, support_vars>>
    /\ p \in proposed
    /\ proposed' = (proposed \ {p})
                   \cup {[p EXCEPT !.validated = @ \/ validate_block(p.block)]}
    /\ UNCHANGED <<current_state, blocks, pending_transactions,
                   max_transactions_per_block, validator_set, clock, overflow_checks,
                   panicked, submitted, state_log, validated_log>>

\* apply_block, which takes the block by value
ApplyBlock(p) ==
    /\ ~panicked
    /\ UNCHANGED <<election_vars, prover_vars, guest_vars, support_vars>>
    /\ p \in proposed
    /\ LET exec == execute_transactions_with_zkvm(current_state, p.block.transactions)
       IN  IF overflow_checks /\ exec.overflow
           THEN /\ panicked' = TRUE
                /\ UNCHANGED <<current_state, blocks, proposed, state_log, validated_log>>
           ELSE /\ panicked' = FALSE
                /\ current_state' = exec.new_state
                /\ blocks' = Append(blocks, p.block)
                /\ proposed' = proposed \ {p}
                /\ state_log' = Append(state_log, current_state)
                /\ validated_log' = Append(validated_log, p.validated)
    /\ UNCHANGED <<pending_transactions, max_transactions_per_block, validator_set,
                   clock, overflow_checks, submitted>>

\* a second passes
Tick ==
    /\ ~panicked
    /\ UNCHANGED <<election_vars, prover_vars, guest_vars, support_vars>>
    /\ clock < MaxClock
    /\ clock' = clock + 1
    /\ UNCHANGED <<current_state, blocks, pending_transactions,
                   max_transactions_per_block, validator_set, proposed,
                   overflow_checks, panicked, submitted, state_log, validated_log>>

Next ==
    \/ \E tx \in Transaction : AddTransaction(tx)
    \/ \E producer \in Producers : ProduceBlock(producer)
    \/ \E p \in proposed : ValidateBlock(p)
    \/ \E p \in proposed : ApplyBlock(p)
    \/ Tick

Spec == Init /\ [][Next]_vars

-----------------------------------------------------------------------------
(* The engine driven with three transactions and a standing clock: the runs *)
(* of Spec in which the pool receives the two funded transfers 1 -> 2 and   *)
(* 2 -> 3 and the transfer of u64::MAX from the absent account 3.           *)

PoolTransactions ==
    {[from |-> 1, to |-> 2, value |-> 100, gas_limit |-> TX_GAS_LIMIT, nonce |-> 0],
     [from |-> 2, to |-> 3, value |-> 50, gas_limit |-> TX_GAS_LIMIT, nonce |-> 0],
     [from |-> 3, to |-> 2, value |-> U64Max, gas_limit |-> TX_GAS_LIMIT, nonce |-> 0]}

PoolNext ==
    \/ \E tx \in PoolTransactions : AddTransaction(tx)
    \/ \E producer \in Producers : ProduceBlock(producer)
    \/ \E p \in proposed : ValidateBlock(p)
    \/ \E p \in proposed : ApplyBlock(p)

PoolSpec == Init /\ [][PoolNext]_vars

-----------------------------------------------------------------------------
(* The engine driven as main drives it: a block validate_block rejects is   *)
(* not applied, the caller lets go of it.                                   *)

\* let is_valid = engine.validate_block(&block)?; if is_valid { ... }: the
\* call returns Ok(false), apply_block is skipped and the block is dropped
RejectBlock(p) ==
    /\ ~panicked
    /\ UNCHANGED <<election_vars, prover_vars, guest_vars, support_vars>>
    /\ p \in proposed
    /\ ~validate_block(p.block)
    /\ proposed' = proposed \ {p}
    /\ UNCHANGED <<current_state, blocks, pending_transactions,
                   max_transactions_per_block, validator_set, clock, overflow_checks,
                   panicked, submitted, state_log, validated_log>>

DriverNext ==
    \/ \E tx \in PoolTransactions : AddTransaction(tx)
    \/ \E producer \in Producers : ProduceBlock(producer)
    \/ \E p \in proposed : ValidateBlock(p)
    \/ \E p \in proposed : ApplyBlock(p)
    \/ \E p \in proposed : RejectBlock(p)

DriverSpec == Init /\ [][DriverNext]_vars

-----------------------------------------------------------------------------
(* The engine driven by a caller that attaches protocol rules to the blocks *)
(* it holds (Block.protocol_updates is a public field) before it asks for   *)
(* their validation.  produce_block itself attaches none.                   *)

\* the ProtocolRule values a caller attaches: a rule for each height of the
\* run and for the height after it, with the proof the engine generates
ProtocolRules ==
    [rule_id : {1},
     rule_data : {<<>>},
     validity_proof : {MockProof},
     activation_epoch : 1..(MaxBlocks + 1)]

\* block.protocol_updates.push(rule) on a held block: the changed block is a
\* block validate_block has not been asked about
AttachProtocolRule(p, rule) ==
    /\ ~panicked
    /\ UNCHANGED <<election_vars, prover_vars, guest_vars, support_vars>>
    /\ p \in proposed
    /\ Len(p.block.protocol_updates) < MaxRules
    /\ proposed' = (proposed \ {p})
                   \cup {[block |-> [p.block EXCEPT !.protocol_updates = Append(@, rule)],
                          validated |-> FALSE]}
    /\ UNCHANGED <<current_state, blocks, pending_transactions,
                   max_transactions_per_block, validator_set, clock, overflow_checks,
                   panicked, submitted, state_log, validated_log>>

RuleNext ==
    \/ \E producer \in Producers : ProduceBlock(producer)
    \/ \E p \in proposed : \E rule \in ProtocolRules : AttachProtocolRule(p, rule)
    \/ \E p \in proposed : ValidateBlock(p)
    \/ \E p \in proposed : ApplyBlock(p)
    \/ Tick

RuleSpec == Init /\ [][RuleNext]_vars

-----------------------------------------------------------------------------
(* Producer election: a caller asks select_block_producer for the producers   *)
(* of consecutive heights.  The heights are chain heights, lengths of a Vec, *)
(* so they lie below 2^usize_bits.                                           *)

ElectionInit ==
    /\ current_state = GenesisState
    /\ blocks = <<>>
    /\ pending_transactions = <<>>
    /\ max_transactions_per_block = MaxTxPerBlock
    /\ \E vs \in ValidatorLists :
           validator_set = [validators |-> vs, total_stake |-> SumStake(vs)]
    /\ proposed = {}
    /\ clock = 0
    /\ overflow_checks \in BOOLEAN
    /\ panicked = FALSE
    /\ submitted = 0
    /\ state_log = <<>>
    /\ validated_log = <<>>
    /\ usize_bits \in UsizeWidths
    /\ first_height \in 0..MaxFirstHeight
    /\ selections = <<>>
    /\ NoProver
    /\ NoGuest
    /\ NoSupport

\* engine.select_block_producer(block_number) for the next height of the run
SelectBlockProducer ==
    /\ Len(selections) < MaxSelections
    /\ \A k \in 1..Len(selections) : selections[k].kind # "Panic"
    /\ selections' =
           Append(selections, select_block_producer(first_height + Len(selections)))
    /\ UNCHANGED <<engine_vars, usize_bits, first_height, prover_vars, guest_vars,
                   support_vars>>

ElectionNext == SelectBlockProducer

ElectionSpec == ElectionInit /\ [][ElectionNext]_vars

-----------------------------------------------------------------------------
(* RealZKProver (src/src/zkvm/real_proofs.rs).  A proof is a ZKProofResult  *)
(* { receipt, public_outputs }; proof_size and generation_time_ms are       *)
(* measurements of the run and are left out.  With the feature "risc0" the  *)
(* proving call may fail, and the prover then returns its error.            *)

\* the batches a caller asks a proof for: none, one and two transactions, the
\* second transaction with a gas_limit of half the u64 range
ProofBatches ==
    LET t1 == [from |-> 1, to |-> 2, value |-> 100, gas_limit |-> TX_GAS_LIMIT, nonce |-> 0]
        t2 == [from |-> 2, to |-> 3, value |-> 50, gas_limit |-> (U64Max + 1) \div 2,
               nonce |-> 0]
    IN  {<<>>, <<t1>>, <<t1, t2>>, <<t2, t2>>}

\* the conversion of a Transaction to the guest's TransactionData
TransactionData(tx) ==
    [from |-> AddressBytes(tx.from), to |-> AddressBytes(tx.to),
     value |-> tx.value, nonce |-> tx.nonce, data |-> <<>>]

\* StateTransitionInput as generate_state_transition_proof builds it
StateTransitionInput(prev_state_root, transactions, block_number, timestamp) ==
    [prev_state_root |-> prev_state_root,
     transactions |-> [k \in 1..Len(transactions) |-> TransactionData(transactions[k])],
     block_number |-> block_number,
     timestamp |-> timestamp]

\* compute_new_state_root
compute_new_state_root(input) ==
    keccak256(
        <<UpdateDigest(input.prev_state_root),
          UpdateBytes(to_le_bytes(input.block_number)),
          UpdateBytes(to_le_bytes(input.timestamp))>>
        \o [k \in 1..Len(input.transactions) |->
                LET tx == input.transactions[k]
                IN  UpdateDigest(keccak256(<<UpdateBytes(tx.from), UpdateBytes(tx.to),
                                             UpdateBytes(to_le_bytes(tx.value)),
                                             UpdateBytes(to_le_bytes(tx.nonce))>>))])

\* compute_recursive_state_root: every proof's new_state_root and transaction_count
compute_recursive_state_root(proof_results) ==
    keccak256([k \in 1..(2 * Len(proof_results)) |->
                  LET outputs == proof_results[(k + 1) \div 2].public_outputs
                  IN  IF k % 2 = 1
                      THEN UpdateDigest(outputs.new_state_root)
                      ELSE UpdateBytes(to_le_bytes(outputs.transaction_count))])

\* generate_state_transition_proof past the proving call: the proof, and
\* whether the sum of the gas limits overflowed
generate_state_transition_proof(prev_state_root, transactions, block_number, timestamp) ==
    LET input == StateTransitionInput(prev_state_root, transactions, block_number, timestamp)
        gas == SumGas(transactions)
    IN  [result |->
             [receipt |-> IF risc0 THEN "receipt" ELSE "zeros",
              public_outputs |->
                  [new_state_root |-> compute_new_state_root(input),
                   transaction_count |-> Len(transactions),
                   gas_used |-> gas.value,
                   success |-> TRUE]],
         overflow |-> gas.overflow]

\* a composition that counts the sub-proofs instead of their transactions
generate_recursive_proof_counting_proofs(proof_results) ==
    LET total_gas ==
            SumU64([k \in 1..Len(proof_results) |-> proof_results[k].public_outputs.gas_used])
    IN  [result |->
             [receipt |-> IF risc0 THEN "receipt" ELSE "zeros",
              public_outputs |->
                  [new_state_root |-> compute_recursive_state_root(proof_results),
                   transaction_count |-> Len(proof_results),
                   gas_used |-> total_gas.value,
                   success |-> \A k \in 1..Len(proof_results) :
                                  proof_results[k].public_outputs.success]],
         overflow |-> total_gas.overflow]

\* generate_recursive_proof past the proving call: the proof, and whether
\* one of the two sums overflowed
generate_recursive_proof(proof_results) ==
    LET total_transactions ==
            SumU64([k \in 1..Len(proof_results) |->
                       proof_results[k].public_outputs.transaction_count])
        total_gas ==
            SumU64([k \in 1..Len(proof_results) |-> proof_results[k].public_outputs.gas_used])
    IN  [result |->
             [receipt |-> IF risc0 THEN "receipt" ELSE "zeros",
              public_outputs |->
                  [new_state_root |-> compute_recursive_state_root(proof_results),
                   transaction_count |-> total_transactions.value,
                   gas_used |-> total_gas.value,
                   success |-> \A k \in 1..Len(proof_results) :
                                  proof_results[k].public_outputs.success]],
         overflow |-> total_transactions.overflow \/ total_gas.overflow]

\* the engine as main constructs it, in either build profile
EngineConstructed ==
    /\ current_state = GenesisState
    /\ blocks = <<>>
    /\ pending_transactions = <<>>
    /\ max_transactions_per_block = MaxTxPerBlock
    /\ validator_set = [validators |-> InitialValidators,
                        total_stake |-> SumStake(InitialValidators)]
    /\ proposed = {}
    /\ clock = 0
    /\ overflow_checks \in BOOLEAN
    /\ panicked = FALSE
    /\ submitted = 0
    /\ state_log = <<>>
    /\ validated_log = <<>>

\* RealZKProver::new
ProverInit ==
    /\ EngineConstructed
    /\ NoElection
    /\ risc0 \in BOOLEAN
    /\ sub_proofs = <<>>
    /\ recursive_proof = <<>>
    /\ prover_status = "running"
    /\ NoGuest
    /\ NoSupport

\* the outcomes of prove_with_opts: it cannot fail without the feature
ProveOutcomes == IF risc0 THEN BOOLEAN ELSE {TRUE}

\* the state roots a caller passes as prev_state_root: the zero hash, or the
\* new_state_root of the proof generated last
PrevStateRoots ==
    {ZeroHash} \cup {sub_proofs[k].result.public_outputs.new_state_root :
                         k \in {Len(sub_proofs)} \ {0}}

\* the block numbers a caller passes: the one after the proofs generated so
\* far, or 1 again
BlockNumbers == {1, Len(sub_proofs) + 1}

\* prover.generate_state_transition_proof(..).await?, the proof pushed to
\* sub_proofs.  The proving call comes first, the sum of the gas limits after it.
GenerateStateTransitionProof(prev_state_root, transactions, block_number, prove_ok) ==
    /\ prover_status = "running"
    /\ recursive_proof = <<>>
    /\ Len(sub_proofs) < MaxProofs
    /\ LET call == generate_state_transition_proof(prev_state_root, transactions,
                                                    block_number, clock)
       IN  IF ~prove_ok
           THEN /\ prover_status' = "Err"
                /\ sub_proofs' = sub_proofs
           ELSE IF overflow_checks /\ call.overflow
           THEN /\ prover_status' = "Panic"
                /\ sub_proofs' = sub_proofs
           ELSE /\ prover_status' = "running"
                /\ sub_proofs' =
                       Append(sub_proofs,
                              [input |-> StateTransitionInput(prev_state_root, transactions,
                                                              block_number, clock),
                               result |-> call.result])
    /\ UNCHANGED <<engine_vars, election_vars, guest_vars, support_vars, risc0,
                   recursive_proof>>

\* prover.generate_recursive_proof(sub_proofs.clone()).await?.  The two sums
\* come first, the proving call after them.
GenerateRecursiveProof(prove_ok) ==
    /\ prover_status = "running"
    /\ recursive_proof = <<>>
    /\ LET proofs == sub_proofs
           call == generate_recursive_proof([k \in 1..Len(proofs) |-> proofs[k].result])
       IN  IF overflow_checks /\ call.overflow
           THEN /\ prover_status' = "Panic"
                /\ recursive_proof' = recursive_proof
           ELSE IF ~prove_ok
           THEN /\ prover_status' = "Err"
                /\ recursive_proof' = recursive_proof
           ELSE /\ prover_status' = "running"
                /\ recursive_proof' = <<[proofs |-> proofs, result |-> call.result]>>
    /\ UNCHANGED <<engine_vars, election_vars, guest_vars, support_vars, risc0,
                   sub_proofs>>

ProverNext ==
    \/ \E prev_state_root \in PrevStateRoots, transactions \in ProofBatches,
          block_number \in BlockNumbers, prove_ok \in ProveOutcomes :
           GenerateStateTransitionProof(prev_state_root, transactions, block_number, prove_ok)
    \/ \E prove_ok \in ProveOutcomes : GenerateRecursiveProof(prove_ok)

ProverSpec == ProverInit /\ [][ProverNext]_vars

-----------------------------------------------------------------------------
(* The guest program (src/src/zkvm/programs/guest_program.rs): the state     *)
(* transition relation over 32-byte roots and 20-byte addresses.             *)

\* verify_transaction_signature: neither address is all zero
verify_transaction_signature(tx) ==
    /\ ~(\A i \in 1..20 : tx.from[i] = 0)
    /\ ~(\A i \in 1..20 : tx.to[i] = 0)

\* compute_transaction_hash: from and to XORed into the first 20 bytes, then
\* value into bytes 0..8 and nonce into bytes 8..16
compute_transaction_hash(tx) ==
    LET value_bytes == to_le_bytes(tx.value)
        nonce_bytes == to_le_bytes(tx.nonce)
        addresses == [i \in 1..32 |-> IF i <= 20 THEN XorU8(tx.from[i], tx.to[i]) ELSE 0]
    IN  [i \in 1..32 |->
            IF i <= 8 THEN XorU8(addresses[i], value_bytes[i])
            ELSE IF i <= 16 THEN XorU8(addresses[i], nonce_bytes[i - 8])
            ELSE addresses[i]]

\* update_state_root: XOR with the transaction hash, then the index into bytes 0..8
update_state_root(current_root, tx_hash, tx_index) ==
    LET index_bytes == to_le_bytes(tx_index)
        new_root == [i \in 1..32 |-> XorU8(current_root[i], tx_hash[i])]
    IN  [i \in 1..32 |-> IF i <= 8 THEN XorU8(new_root[i], index_bytes[i]) ELSE new_root[i]]

\* finalize_state_root: block_number into bytes 0..8, timestamp into bytes 8..16
finalize_state_root(state_root, block_number, timestamp) ==
    LET block_bytes == to_le_bytes(block_number)
        time_bytes == to_le_bytes(timestamp)
    IN  [i \in 1..32 |->
            IF i <= 8 THEN XorU8(state_root[i], block_bytes[i])
            ELSE IF i <= 16 THEN XorU8(state_root[i], time_bytes[i - 8])
            ELSE state_root[i]]

RECURSIVE TransitionLoop(_, _, _)
\* the loop of verify_state_transition from the transaction of index i on;
\* it breaks at the first transaction whose signature check fails
TransitionLoop(st, transactions, i) ==
    IF i >= Len(transactions) THEN st
    ELSE LET tx == transactions[i + 1]
         IN  IF ~verify_transaction_signature(tx)
             THEN [st EXCEPT !.success = FALSE]
             ELSE LET cost == AddU64(21000, Len(tx.data) * 16)
                      gas == AddU64(st.total_gas_used, cost.value)
                  IN  TransitionLoop(
                          [new_state_root |->
                               update_state_root(st.new_state_root,
                                                 compute_transaction_hash(tx), i),
                           total_gas_used |-> gas.value,
                           success |-> st.success,
                           overflow |-> st.overflow \/ cost.overflow \/ gas.overflow],
                          transactions, i + 1)

\* verify_state_transition: the StateTransitionOutput, and whether the gas
\* arithmetic overflowed
verify_state_transition(input) ==
    LET st == TransitionLoop([new_state_root |-> input.prev_state_root,
                              total_gas_used |-> 0, success |-> TRUE, overflow |-> FALSE],
                             input.transactions, 0)
    IN  [output |->
             [new_state_root |->
                  IF st.success
                  THEN finalize_state_root(st.new_state_root, input.block_number,
                                           input.timestamp)
                  ELSE st.new_state_root,
              transaction_count |-> Len(input.transactions),
              gas_used |-> st.total_gas_used,
              success |-> st.success],
         overflow |-> st.overflow]

\* the transactions a host hands to the guest: from and to among the zero
\* address and Address::new(1), Address::new(2)
GuestTransactions ==
    [from : {AddressBytes(0), AddressBytes(1)},
     to : {AddressBytes(0), AddressBytes(1), AddressBytes(2)},
     value : {0, 100}, nonce : {0, 1}, data : {<<>>}]

\* the roots a host hands to the guest: every byte 0, and every byte 255
GuestRoots == {[i \in 1..32 |-> 0], [i \in 1..32 |-> 255]}

\* the input env::read() returns
GuestInit ==
    /\ EngineConstructed
    /\ NoElection
    /\ NoProver
    /\ NoSupport
    /\ guest_input \in
           [prev_state_root : GuestRoots,
            transactions : UNION {[1..n -> GuestTransactions] : n \in 0..MaxGuestTxs},
            block_number : 1..MaxBlocks,
            timestamp : 0..MaxClock]
    /\ guest_output = <<>>

\* main: read the input, verify the state transition, commit the output.  An
\* overflow of the gas arithmetic panics in a build with overflow checks.
GuestMain ==
    /\ guest_output = <<>>
    /\ LET run == verify_state_transition(guest_input)
       IN  guest_output' = <<[output |-> run.output,
                              panicked |-> overflow_checks /\ run.overflow]>>
    /\ UNCHANGED <<engine_vars, election_vars, prover_vars, support_vars, guest_input>>

GuestNext == GuestMain

GuestSpec == GuestInit /\ [][GuestNext]_vars

-----------------------------------------------------------------------------
(* PostQuantumSigner (src/src/crypto/signatures.rs): the mock LMS scheme.   *)
(* A signature is 1024 bytes: bytes 0..4 the first four address bytes,      *)
(* 4..8 the message length, byte 8 the marker, 9..41 the Blake3 hash of the *)
(* message, the rest zero; it is kept as those four parts and its length.   *)
(* Both functions are compiled under cfg(feature = "default").              *)

\* the messages handed to the signer
Messages == UNION {[1..n -> {0, 255}] : n \in 0..MaxMessageLen}

\* usize::to_le_bytes: as many bytes as the target's usize has
usize_to_le_bytes(x) ==
    IF usize_bits = U64Bits THEN to_le_bytes(x) ELSE SubSeq(to_le_bytes(x), 1, 4)

\* u32::from_le_bytes
u32_from_le_bytes(bytes) ==
    bytes[1] + 256 * bytes[2] + 65536 * bytes[3] + 16777216 * bytes[4]

\* sign_lms: signature[4..8].copy_from_slice(..) panics unless the source
\* slice has the four bytes of the destination
sign_lms(address, message) ==
    IF ~default_feature THEN [kind |-> "Err", signature |-> <<>>]
    ELSE LET len_bytes == usize_to_le_bytes(Len(message))
         IN  IF Len(len_bytes) # 4 THEN [kind |-> "Panic", signature |-> <<>>]
             ELSE [kind |-> "Ok",
                   signature |-> <<[address_prefix |-> SubSeq(AddressBytes(address), 1, 4),
                                    message_len |-> len_bytes,
                                    marker |-> LMS_MARKER,
                                    message_hash |-> blake3_hash(message),
                                    len |-> LMS_SIGNATURE_LEN]>>]

\* verify_lms: "Ok" or "Err"
verify_lms(signature, address, message) ==
    IF ~default_feature THEN "Err"
    ELSE IF /\ signature.len >= LMS_MIN_LEN
            /\ signature.address_prefix = SubSeq(AddressBytes(address), 1, 4)
            /\ AsUsize(u32_from_le_bytes(signature.message_len)) = Len(message)
            /\ signature.marker = LMS_MARKER
         THEN IF signature.message_hash = blake3_hash(message) THEN "Ok" ELSE "Err"
         ELSE "Err"

\* PostQuantumSigner::new, on either target and with or without the feature
SignerInit ==
    /\ EngineConstructed
    /\ usize_bits \in UsizeWidths
    /\ first_height = 1
    /\ selections = <<>>
    /\ NoProver
    /\ NoGuest
    /\ SupportIdle("signer")
    /\ default_feature \in BOOLEAN
    /\ lms_signatures = <<>>

\* signer.sign_lms(&address, message); a panic ends the run
SignLms(address, message) ==
    /\ Len(lms_signatures) < MaxSignatures
    /\ \A k \in 1..Len(lms_signatures) : lms_signatures[k].signed.kind # "Panic"
    /\ lms_signatures' = Append(lms_signatures,
                                [address |-> address, message |-> message,
                                 signed |-> sign_lms(address, message),
                                 verified |-> "None"])
    /\ UNCHANGED <<core_vars, default_feature>>
    /\ SupportFrame("signer")

\* signer.verify_lms(&signature, &address, message) on a signature sign_lms returned
VerifyLms(k) ==
    /\ lms_signatures[k].signed.kind = "Ok"
    /\ lms_signatures[k].verified = "None"
    /\ lms_signatures' =
           [lms_signatures EXCEPT ![k].verified =
                verify_lms(lms_signatures[k].signed.signature[1],
                           lms_signatures[k].address, lms_signatures[k].message)]
    /\ UNCHANGED <<core_vars, default_feature>>
    /\ SupportFrame("signer")

SignerNext ==
    \/ \E address \in Address : \E message \in Messages : SignLms(address, message)
    \/ \E k \in 1..Len(lms_signatures) : VerifyLms(k)

SignerSpec == SignerInit /\ [][SignerNext]_vars

-----------------------------------------------------------------------------
(* AsyncTaskPool (src/src/async_utils.rs).  execute acquires a permit,      *)
(* spawns the task on the runtime and awaits its JoinHandle; the permit is  *)
(* a local of the call's future and is released when that future returns or *)
(* is dropped.  Dropping the call's future drops the JoinHandle too, which  *)
(* detaches the task: the task runs on.                                     *)

\* a permit that is forgotten instead of dropped
ForgetPermit(permits) == permits

\* drop(SemaphorePermit): the permit goes back to the semaphore
DropPermit(permits) == permits + 1

\* the Result execute returns for a task that ended: a panic is a JoinError
ExecuteResult(task) == IF task = "ok" THEN "Ok" ELSE "Err"

\* the execute calls that hold a place in the pool
InFlight == {c \in 1..Len(pool_calls) : pool_calls[c] \in {"acquiring", "awaiting"}}

\* AsyncTaskPool::new(max_concurrent)
TaskPoolInit ==
    /\ EngineConstructed
    /\ NoElection
    /\ NoProver
    /\ NoGuest
    /\ SupportIdle("pool")
    /\ max_concurrent \in 0..MaxConcurrent
    /\ semaphore = max_concurrent
    /\ pool_calls = [c \in 1..MaxCalls |-> "idle"]
    /\ pool_tasks = [c \in 1..MaxCalls |-> "none"]

\* a caller starts pool.execute(task): the call waits in semaphore.acquire()
Execute(c) ==
    /\ pool_calls[c] = "idle"
    /\ pool_calls' = [pool_calls EXCEPT ![c] = "acquiring"]
    /\ UNCHANGED <<core_vars, max_concurrent, semaphore, pool_tasks>>
    /\ SupportFrame("pool")

\* semaphore.acquire() returns a permit; the call spawns its task and awaits it
AcquireAndSpawn(c) ==
    /\ pool_calls[c] = "acquiring"
    /\ semaphore > 0
    /\ semaphore' = semaphore - 1
    /\ pool_calls' = [pool_calls EXCEPT ![c] = "awaiting"]
    /\ pool_tasks' = [pool_tasks EXCEPT ![c] = "running"]
    /\ UNCHANGED <<core_vars, max_concurrent>>
    /\ SupportFrame("pool")

\* a spawned task ends: it returns Ok or Err, or it panics
TaskEnds(c, outcome) ==
    /\ pool_tasks[c] = "running"
    /\ pool_tasks' = [pool_tasks EXCEPT ![c] = outcome]
    /\ UNCHANGED <<core_vars, max_concurrent, semaphore, pool_calls>>
    /\ SupportFrame("pool")

\* handle.await completes and execute returns, dropping its permit
ExecuteReturns(c) ==
    /\ pool_calls[c] = "awaiting"
    /\ pool_tasks[c] \in {"ok", "err", "panic"}
    /\ pool_calls' = [pool_calls EXCEPT ![c] = ExecuteResult(pool_tasks[c])]
    /\ semaphore' = DropPermit(semaphore)
    /\ UNCHANGED <<core_vars, max_concurrent, pool_tasks>>
    /\ SupportFrame("pool")

\* the caller drops the future of a call in flight: a held permit is dropped
\* with it, the spawned task is left as it is
CancelExecute(c) ==
    /\ c \in InFlight
    /\ pool_calls' = [pool_calls EXCEPT ![c] = "cancelled"]
    /\ semaphore' = IF pool_calls[c] = "awaiting" THEN DropPermit(semaphore)
                    ELSE semaphore
    /\ UNCHANGED <<core_vars, max_concurrent, pool_tasks>>
    /\ SupportFrame("pool")

TaskPoolNext ==
    \/ \E c \in 1..MaxCalls : Execute(c)
    \/ \E c \in 1..MaxCalls : AcquireAndSpawn(c)
    \/ \E c \in 1..MaxCalls : \E outcome \in {"ok", "err", "panic"} : TaskEnds(c, outcome)
    \/ \E c \in 1..MaxCalls : ExecuteReturns(c)
    \/ \E c \in 1..MaxCalls : CancelExecute(c)

TaskPoolSpec == TaskPoolInit /\ [][TaskPoolNext]_vars

-----------------------------------------------------------------------------
(* BatchProcessor (src/src/async_utils.rs): add_item, start_processing and  *)
(* the loop it spawns, select! { item = receiver.recv() => .., _ =          *)
(* sleep(timeout_duration), if !current_batch.is_empty() => .. }.  The      *)
(* sleep is created by the select! of each iteration, so each iteration     *)
(* arms it anew.  Time is counted in ticks; a branch that is ready is taken *)
(* before the next tick, and the handler takes no time.  The handler's      *)
(* result is only logged.                                                   *)

\* a drain that leaves the first item of the batch behind
drain_collect_without_first(batch) == Tail(batch)

\* current_batch.drain(..).collect(): the whole batch, in order
drain_collect(batch) == batch

\* BatchProcessor::new(batch_size, timeout_duration)
BatchInit ==
    /\ EngineConstructed
    /\ NoElection
    /\ NoProver
    /\ NoGuest
    /\ SupportIdle("batch")
    /\ batch_size \in 1..MaxBatchSize
    /\ timeout_duration \in 1..MaxTimeout
    /\ channel = <<>>
    /\ current_batch = <<>>
    /\ sleep_elapsed = 0
    /\ last_batch_elapsed = 0
    /\ handled = <<>>
    /\ items_sent = 0
    /\ first_item_age = 0
    /\ handler_results = <<>>
    /\ sender_dropped = FALSE
    /\ loop_state = "idle"

\* add_item: sender.send(item) into the channel of capacity batch_size * 2
AddItem ==
    /\ ~sender_dropped
    /\ items_sent < MaxItems
    /\ Len(channel) < batch_size * 2
    /\ channel' = Append(channel, items_sent + 1)
    /\ items_sent' = items_sent + 1
    /\ UNCHANGED <<core_vars, batch_size, timeout_duration, current_batch, sleep_elapsed,
                   last_batch_elapsed, handled, first_item_age, handler_results,
                   sender_dropped, loop_state>>
    /\ SupportFrame("batch")

\* start_processing: the receiver is taken and the loop is spawned
StartProcessing ==
    /\ ~sender_dropped
    /\ loop_state = "idle"
    /\ loop_state' = "running"
    /\ UNCHANGED <<core_vars, batch_size, timeout_duration, channel, current_batch,
                   sleep_elapsed, last_batch_elapsed, handled, items_sent, first_item_age,
                   handler_results, sender_dropped>>
    /\ SupportFrame("batch")

\* the BatchProcessor is dropped: the channel is closed once it is empty
DropProcessor ==
    /\ ~sender_dropped
    /\ sender_dropped' = TRUE
    /\ UNCHANGED <<core_vars, batch_size, timeout_duration, channel, current_batch,
                   sleep_elapsed, last_batch_elapsed, handled, items_sent, first_item_age,
                   handler_results, loop_state>>
    /\ SupportFrame("batch")

\* the recv branch, Some(item): push the item, hand a full batch to the
\* handler; the loop then enters its next select!
ReceiveItem(outcome) ==
    /\ loop_state = "running"
    /\ channel # <<>>
    /\ channel' = Tail(channel)
    /\ LET pushed == Append(current_batch, Head(channel))
       IN  IF Len(pushed) >= batch_size
           THEN /\ handled' = Append(handled, drain_collect(pushed))
                /\ handler_results' = Append(handler_results, outcome)
                /\ current_batch' = <<>>
                /\ last_batch_elapsed' = 0
                /\ first_item_age' = 0
           ELSE /\ handled' = handled
                /\ handler_results' = handler_results
                /\ current_batch' = pushed
                /\ last_batch_elapsed' = last_batch_elapsed
                /\ first_item_age' = IF current_batch = <<>> THEN 0 ELSE first_item_age
    /\ sleep_elapsed' = 0
    /\ UNCHANGED <<core_vars, batch_size, timeout_duration, items_sent, sender_dropped,
                   loop_state>>
    /\ SupportFrame("batch")

\* the recv branch, None: the channel is closed and empty, the remaining
\* items go to the handler and the loop breaks
ChannelClosed(outcome) ==
    /\ loop_state = "running"
    /\ sender_dropped
    /\ channel = <<>>
    /\ IF current_batch # <<>>
       THEN /\ handled' = Append(handled, drain_collect(current_batch))
            /\ handler_results' = Append(handler_results, outcome)
       ELSE UNCHANGED <<handled, handler_results>>
    /\ current_batch' = <<>>
    /\ first_item_age' = 0
    /\ loop_state' = "ended"
    /\ UNCHANGED <<core_vars, batch_size, timeout_duration, channel, sleep_elapsed,
                   last_batch_elapsed, items_sent, sender_dropped>>
    /\ SupportFrame("batch")

\* the sleep branch: flush the batch if last_batch_time is old enough; the
\* loop then enters its next select!
SleepFires(outcome) ==
    /\ loop_state = "running"
    /\ current_batch # <<>>
    /\ sleep_elapsed >= timeout_duration
    /\ IF last_batch_elapsed >= timeout_duration
       THEN /\ handled' = Append(handled, drain_collect(current_batch))
            /\ handler_results' = Append(handler_results, outcome)
            /\ current_batch' = <<>>
            /\ last_batch_elapsed' = 0
            /\ first_item_age' = 0
       ELSE UNCHANGED <<handled, handler_results, current_batch, last_batch_elapsed,
                        first_item_age>>
    /\ sleep_elapsed' = 0
    /\ UNCHANGED <<core_vars, batch_size, timeout_duration, channel, items_sent,
                   sender_dropped, loop_state>>
    /\ SupportFrame("batch")

\* a tick passes while the loop waits in select! with no branch ready; the
\* three clocks stop counting one past the largest timeout
BatchTick ==
    /\ loop_state = "running"
    /\ channel = <<>>
    /\ ~sender_dropped
    /\ ~(current_batch # <<>> /\ sleep_elapsed >= timeout_duration)
    /\ sleep_elapsed' = Min(sleep_elapsed + 1, timeout_duration)
    /\ last_batch_elapsed' = Min(last_batch_elapsed + 1, timeout_duration)
    /\ first_item_age' = IF current_batch = <<>> THEN 0
                         ELSE Min(first_item_age + 1, MaxTimeout + 1)
    /\ UNCHANGED <<core_vars, batch_size, timeout_duration, channel, current_batch,
                   handled, items_sent, handler_results, sender_dropped, loop_state>>
    /\ SupportFrame("batch")

BatchNext ==
    \/ AddItem
    \/ StartProcessing
    \/ DropProcessor
    \/ \E outcome \in {"Ok", "Err"} : ReceiveItem(outcome)
    \/ \E outcome \in {"Ok", "Err"} : ChannelClosed(outcome)
    \/ \E outcome \in {"Ok", "Err"} : SleepFires(outcome)
    \/ BatchTick

BatchSpec == BatchInit /\ [][BatchNext]_vars

\* the loop is a spawned task of the runtime and time passes: each of its
\* branches is taken if it stays ready
BatchFairSpec ==
    /\ BatchSpec
    /\ WF_vars(\E outcome \in {"Ok", "Err"} : ReceiveItem(outcome))
    /\ WF_vars(\E outcome \in {"Ok", "Err"} : ChannelClosed(outcome))
    /\ WF_vars(\E outcome \in {"Ok", "Err"} : SleepFires(outcome))
    /\ WF_vars(BatchTick)

-----------------------------------------------------------------------------
(* TimeoutManager::execute_with_backoff (src/src/async_utils.rs): one call, *)
(* attempt by attempt.  The task of an attempt returns Ok, returns Err, or  *)
(* is still running when the timeout expires.                               *)

\* the base_timeout_ms values a call is given
BaseTimeouts == {1, 100, (U64Max + 1) \div 2}

\* TimeoutManager::execute_with_backoff(task, max_retries, base_timeout_ms) is called
BackoffInit ==
    /\ EngineConstructed
    /\ NoElection
    /\ NoProver
    /\ NoGuest
    /\ SupportIdle("backoff")
    /\ max_retries \in 0..MaxRetries
    /\ current_timeout \in BaseTimeouts
    /\ invocations = <<>>
    /\ backoff_result = "running"

\* one iteration of for attempt in 0..max_retries: timeout(current_timeout, task())
BackoffAttempt(outcome) ==
    /\ backoff_result = "running"
    /\ Len(invocations) < max_retries
    /\ invocations' = Append(invocations, [timeout |-> current_timeout,
                                           outcome |-> outcome])
    /\ LET attempt == Len(invocations)
           doubled == AddU64(current_timeout, current_timeout)
       IN  IF outcome = "ok"
           THEN backoff_result' = "Ok" /\ current_timeout' = current_timeout
           ELSE IF outcome = "err"
           THEN backoff_result' = "Err" /\ current_timeout' = current_timeout
           ELSE IF attempt = max_retries - 1
           THEN backoff_result' = "Err" /\ current_timeout' = current_timeout
           ELSE IF doubled.overflow /\ overflow_checks
           THEN backoff_result' = "Panic" /\ current_timeout' = current_timeout
           ELSE backoff_result' = "running" /\ current_timeout' = doubled.value
    /\ UNCHANGED <<core_vars, max_retries>>
    /\ SupportFrame("backoff")

\* the for loop ends without a return: Err("Task failed after {} attempts")
BackoffLoopEnds ==
    /\ backoff_result = "running"
    /\ Len(invocations) >= max_retries
    /\ backoff_result' = "Err"
    /\ UNCHANGED <<core_vars, max_retries, current_timeout, invocations>>
    /\ SupportFrame("backoff")

BackoffNext ==
    \/ \E outcome \in {"ok", "err", "timeout"} : BackoffAttempt(outcome)
    \/ BackoffLoopEnds

BackoffSpec == BackoffInit /\ [][BackoffNext]_vars

-----------------------------------------------------------------------------
(* PerformanceMonitor (src/src/performance/mod.rs).  The timers, the        *)
(* simulated system metrics and the floating-point averages of a summary    *)
(* are measurements of the run and are left out; a benchmark keeps its      *)
(* block number, its transaction count and the error counts it was taken    *)
(* with.                                                                    *)

\* PerformanceSummary::default()
DefaultPerformanceSummary ==
    [total_blocks |-> 0, total_transactions |-> 0, total_errors |-> 0]

\* get_performance_summary: the default summary while no benchmark exists
get_performance_summary ==
    IF benchmarks = <<>> THEN DefaultPerformanceSummary
    ELSE [total_blocks |-> Len(benchmarks),
          total_transactions |->
              SumU64([k \in 1..Len(benchmarks) |-> benchmarks[k].transaction_count]).value,
          total_errors |->
              SumU64([k \in 1..Len(ErrorTypeList) |-> error_counts[ErrorTypeList[k]]]).value]

\* PerformanceMonitor::new
MonitorInit ==
    /\ EngineConstructed
    /\ NoElection
    /\ NoProver
    /\ NoGuest
    /\ SupportIdle("monitor")
    /\ NoMonitor

\* monitor.record_error(error_type)
RecordError(error_type) ==
    /\ record_error_calls < MaxErrors
    /\ error_counts' = [error_counts EXCEPT ![error_type] = @ + 1]
    /\ record_error_calls' = record_error_calls + 1
    /\ UNCHANGED <<core_vars, benchmarks>>
    /\ SupportFrame("monitor")

\* monitor.create_benchmark(block_number, transaction_count, ..)
CreateBenchmark(transaction_count) ==
    /\ Len(benchmarks) < MaxBenchmarks
    /\ benchmarks' = Append(benchmarks, [block_number |-> Len(benchmarks) + 1,
                                         transaction_count |-> transaction_count,
                                         errors |-> error_counts])
    /\ UNCHANGED <<core_vars, error_counts, record_error_calls>>
    /\ SupportFrame("monitor")

MonitorNext ==
    \/ \E error_type \in ErrorTypes : RecordError(error_type)
    \/ \E transaction_count \in {0, MaxTxPerBlock} : CreateBenchmark(transaction_count)

MonitorSpec == MonitorInit /\ [][MonitorNext]_vars

-----------------------------------------------------------------------------
(* encode_hybrid / decode_hybrid (src/src/serialization.rs).  A value is    *)
(* kept as its type and its bytes in memory: the 32 bytes of a BlockHash,   *)
(* the 20 of an Address, the elements of a Vec<u8>, the eight little-endian *)
(* bytes of a u64.  Encoded data and JSON text are sequences of bytes.      *)
(* bincode::serialize / deserialize are the 1.x functions: fixed-width      *)
(* little-endian integers, a u64 length before a Vec, no length before an   *)
(* array, and trailing bytes are allowed when decoding.                     *)

\* the values handed to encode_hybrid
HybridValues ==
    {[type |-> "BlockHash", bytes |-> [i \in 1..32 |-> b]] : b \in {0, 123, 255}}
    \cup {[type |-> "Address", bytes |-> AddressBytes(id)] : id \in Address}
    \cup {[type |-> "Vec<u8>", bytes |-> v] :
              v \in UNION {[1..n -> {0, 255}] : n \in 0..MaxVecLen}}
    \cup {[type |-> "u64", bytes |-> to_le_bytes(n)] : n \in {0, 1000, 12345678}}

\* the number of bytes bincode reads for a value of a fixed-size type
FixedSize(type) ==
    IF type = "BlockHash" THEN 32 ELSE IF type = "Address" THEN 20 ELSE 8

\* the ASCII decimal digits of n
RECURSIVE Digits(_)
Digits(n) == IF n < 10 THEN <<48 + n>> ELSE Digits(n \div 10) \o <<48 + (n % 10)>>

\* the elements of a JSON array, separated by ','
RECURSIVE JsonItems(_)
JsonItems(bytes) ==
    IF bytes = <<>> THEN <<>>
    ELSE IF Len(bytes) = 1 THEN Digits(bytes[1])
    ELSE Digits(bytes[1]) \o <<44>> \o JsonItems(Tail(bytes))

\* serde_json::to_string(x).into_bytes(): a number, or '[' elements ']'
serde_json_to_string(x) ==
    IF x.type = "u64" THEN Digits(u32_from_le_bytes(x.bytes))
    ELSE <<91>> \o JsonItems(x.bytes) \o <<93>>

\* the numbers written in a text from position i on; cur is the value of
\* the digits of the current number read so far, -1 outside a number
RECURSIVE JsonNumbers(_, _, _)
JsonNumbers(text, i, cur) ==
    IF i > Len(text) THEN (IF cur < 0 THEN <<>> ELSE <<cur>>)
    ELSE IF text[i] \in 48..57
         THEN JsonNumbers(text, i + 1, (IF cur < 0 THEN 0 ELSE cur) * 10 + (text[i] - 48))
         ELSE (IF cur < 0 THEN <<>> ELSE <<cur>>) \o JsonNumbers(text, i + 1, -1)

\* serde_json::from_str::<T>(text)
serde_json_from_str(type, text) ==
    LET numbers == JsonNumbers(text, 1, -1)
        is_array == Len(text) >= 2 /\ text[1] = 91 /\ text[Len(text)] = 93
        err == [kind |-> "Err", value |-> <<>>]
    IN  IF type = "u64"
        THEN IF Len(text) >= 1 /\ Len(numbers) = 1 /\ \A i \in 1..Len(text) : text[i] \in 48..57
             THEN [kind |-> "Ok", value |-> <<[type |-> type, bytes |-> to_le_bytes(numbers[1])]>>]
             ELSE err
        ELSE IF /\ is_array
                /\ \A k \in 1..Len(numbers) : numbers[k] <= 255
                /\ (type = "Vec<u8>" \/ Len(numbers) = FixedSize(type))
             THEN [kind |-> "Ok", value |-> <<[type |-> type, bytes |-> numbers]>>]
             ELSE err

\* bincode::serialize(x)
bincode_serialize(x) ==
    IF x.type = "Vec<u8>" THEN to_le_bytes(Len(x.bytes)) \o x.bytes ELSE x.bytes

\* bincode::deserialize::<T>(data): reads the bytes the type needs from the
\* front of data and ignores the rest; too few bytes is an error
bincode_deserialize(type, data) ==
    LET err == [kind |-> "Err", value |-> <<>>]
    IN  IF type = "Vec<u8>"
        THEN IF Len(data) < 8 THEN err
             ELSE LET len_fits ==
                          /\ \A i \in 4..8 : data[i] = 0
                          /\ data[1] + 256 * data[2] + 65536 * data[3] <= Len(data) - 8
                      len == data[1] + 256 * data[2] + 65536 * data[3]
                  IN  IF len_fits
                      THEN [kind |-> "Ok",
                            value |-> <<[type |-> type, bytes |-> SubSeq(data, 9, 8 + len)]>>]
                      ELSE err
        ELSE IF Len(data) < FixedSize(type) THEN err
             ELSE [kind |-> "Ok",
                   value |-> <<[type |-> type, bytes |-> SubSeq(data, 1, FixedSize(type))]>>]

\* encode_hybrid(x, debug_mode)
encode_hybrid(x, debug) ==
    IF debug THEN serde_json_to_string(x) ELSE bincode_serialize(x)

\* decode_hybrid::<T>(data): bincode first, JSON if bincode fails
decode_hybrid(type, data) ==
    LET binary == bincode_deserialize(type, data)
    IN  IF binary.kind = "Ok" THEN binary ELSE serde_json_from_str(type, data)

\* a caller has a value and a mode
HybridInit ==
    /\ EngineConstructed
    /\ NoElection
    /\ NoProver
    /\ NoGuest
    /\ SupportIdle("hybrid")
    /\ hybrid_value \in HybridValues
    /\ debug_mode \in BOOLEAN
    /\ hybrid_encoded = <<>>
    /\ hybrid_decoded = <<>>

\* let data = encode_hybrid(&x, debug_mode).unwrap()
EncodeHybrid ==
    /\ hybrid_encoded = <<>>
    /\ hybrid_encoded' = <<encode_hybrid(hybrid_value, debug_mode)>>
    /\ UNCHANGED <<core_vars, hybrid_value, debug_mode, hybrid_decoded>>
    /\ SupportFrame("hybrid")

\* decode_hybrid::<T>(&data) at the type of x
DecodeHybrid ==
    /\ hybrid_encoded # <<>>
    /\ hybrid_decoded = <<>>
    /\ hybrid_decoded' = <<decode_hybrid(hybrid_value.type, hybrid_encoded[1])>>
    /\ UNCHANGED <<core_vars, hybrid_value, debug_mode, hybrid_encoded>>
    /\ SupportFrame("hybrid")

HybridNext ==
    \/ EncodeHybrid
    \/ DecodeHybrid

HybridSpec == HybridInit /\ [][HybridNext]_vars

-----------------------------------------------------------------------------
(* StreamingProcessor::process_stream (src/src/async_utils.rs): one call on *)
(* the stream 1, 2, .., n with the processor of test_streaming_processor,   *)
(* |x| Ok(x * 2), which may also fail for some items.  buffer is a          *)
(* FuturesUnordered: its next() yields the futures in the order in which    *)
(* they complete, and they complete in any order.                           *)

\* processor(item) of an item for which it succeeds
processor(item) == item * 2

\* results.push(result?) for the future of an item: the call returns Err on
\* an Err result
PushResult(item, next_pc) ==
    IF item \in failing_items
    THEN /\ stream_pc' = "Err"
         /\ results' = results
    ELSE /\ stream_pc' = next_pc
         /\ results' = Append(results, processor(item))

\* StreamingProcessor::process_stream(stream, processor, max_concurrent) is called
StreamInit ==
    /\ EngineConstructed
    /\ NoElection
    /\ NoProver
    /\ NoGuest
    /\ SupportIdle("stream")
    /\ \E n \in 0..MaxStream :
           /\ stream = [k \in 1..n |-> k]
           /\ failing_items \in SUBSET (1..n)
    /\ stream_max_concurrent \in 0..MaxConcurrent
    /\ buffer = {}
    /\ completed = <<>>
    /\ active_count = 0
    /\ results = <<>>
    /\ held_item = <<>>
    /\ stream_pc = "select"

\* the future of an item in buffer completes
FutureCompletes(item) ==
    /\ stream_pc \in {"select", "slot", "drain"}
    /\ item \in buffer
    /\ buffer' = buffer \ {item}
    /\ completed' = Append(completed, item)
    /\ UNCHANGED <<core_vars, stream, stream_max_concurrent, failing_items, active_count,
                   results, held_item, stream_pc>>
    /\ SupportFrame("stream")

\* the select! branch item = stream.next(), Some(item): push the future, or
\* wait for a slot; a buffer.next() on the empty buffer returns None at
\* once and the item is dropped
StreamYieldsItem ==
    /\ stream_pc = "select"
    /\ stream # <<>>
    /\ stream' = Tail(stream)
    /\ IF active_count < stream_max_concurrent
       THEN /\ buffer' = buffer \cup {Head(stream)}
            /\ active_count' = active_count + 1
            /\ UNCHANGED <<held_item, stream_pc>>
       ELSE IF buffer = {} /\ completed = <<>>
       THEN UNCHANGED <<buffer, active_count, held_item, stream_pc>>
       ELSE /\ held_item' = <<Head(stream)>>
            /\ stream_pc' = "slot"
            /\ UNCHANGED <<buffer, active_count>>
    /\ UNCHANGED <<core_vars, stream_max_concurrent, failing_items, completed, results>>
    /\ SupportFrame("stream")

\* buffer.next().await of the branch that waits for a slot yields a result:
\* it is pushed and the held item's future takes the slot
SlotFrees ==
    /\ stream_pc = "slot"
    /\ completed # <<>>
    /\ completed' = Tail(completed)
    /\ PushResult(Head(completed), "select")
    /\ IF Head(completed) \in failing_items
       THEN UNCHANGED <<buffer, held_item>>
       ELSE /\ buffer' = buffer \cup {held_item[1]}
            /\ held_item' = <<>>
    /\ UNCHANGED <<core_vars, stream, stream_max_concurrent, failing_items, active_count>>
    /\ SupportFrame("stream")

\* the select! branch result = buffer.next(), if !buffer.is_empty()
BufferYieldsResult ==
    /\ stream_pc = "select"
    /\ completed # <<>>
    /\ completed' = Tail(completed)
    /\ PushResult(Head(completed), "select")
    /\ active_count' = IF Head(completed) \in failing_items THEN active_count
                       ELSE active_count - 1
    /\ UNCHANGED <<core_vars, stream, stream_max_concurrent, failing_items, buffer,
                   held_item>>
    /\ SupportFrame("stream")

\* the select! branch item = stream.next(), None: break
StreamEnds ==
    /\ stream_pc = "select"
    /\ stream = <<>>
    /\ stream_pc' = "drain"
    /\ UNCHANGED <<core_vars, stream, stream_max_concurrent, failing_items, buffer,
                   completed, active_count, results, held_item>>
    /\ SupportFrame("stream")

\* while let Some(result) = buffer.next().await { results.push(result?) }
DrainYieldsResult ==
    /\ stream_pc = "drain"
    /\ completed # <<>>
    /\ completed' = Tail(completed)
    /\ PushResult(Head(completed), "drain")
    /\ UNCHANGED <<core_vars, stream, stream_max_concurrent, failing_items, buffer,
                   active_count, held_item>>
    /\ SupportFrame("stream")

\* buffer.next() returns None: Ok(results)
ProcessStreamReturns ==
    /\ stream_pc = "drain"
    /\ buffer = {}
    /\ completed = <<>>
    /\ stream_pc' = "Ok"
    /\ UNCHANGED <<core_vars, stream, stream_max_concurrent, failing_items, buffer,
                   completed, active_count, results, held_item>>
    /\ SupportFrame("stream")

StreamNext ==
    \/ \E item \in 1..MaxStream : FutureCompletes(item)
    \/ StreamYieldsItem
    \/ SlotFrees
    \/ BufferYieldsResult
    \/ StreamEnds
    \/ DrainYieldsResult
    \/ ProcessStreamReturns

StreamSpec == StreamInit /\ [][StreamNext]_vars

-----------------------------------------------------------------------------
(* FutureRacer::race_first_success (src/src/async_utils.rs): one call.      *)
(* select_all(futures) completes with the output of the first future that   *)
(* completes, whatever that output is.                                      *)

\* FutureRacer::race_first_success(futures) is called
RaceInit ==
    /\ EngineConstructed
    /\ NoElection
    /\ NoProver
    /\ NoGuest
    /\ SupportIdle("race")
    /\ race_futures \in UNION {[1..n -> {"Ok", "Err", "Never"}] : n \in 0..MaxFutures}
    /\ race_result = <<>>

\* if futures.is_empty() { return Err(anyhow!("No futures to race")) }
RaceNoFutures ==
    /\ race_result = <<>>
    /\ race_futures = <<>>
    /\ race_result' = <<[kind |-> "Err", index |-> 0]>>
    /\ UNCHANGED <<core_vars, race_futures>>
    /\ SupportFrame("race")

\* the future at index i is the first to complete: select_all returns its
\* output and race_first_success returns that
RaceFutureCompletes(i) ==
    /\ race_result = <<>>
    /\ i \in 1..Len(race_futures)
    /\ race_futures[i] # "Never"
    /\ race_result' = <<[kind |-> race_futures[i], index |-> i]>>
    /\ UNCHANGED <<core_vars, race_futures>>
    /\ SupportFrame("race")

RaceNext ==
    \/ RaceNoFutures
    \/ \E i \in 1..MaxFutures : RaceFutureCompletes(i)

RaceSpec == RaceInit /\ [][RaceNext]_vars

-----------------------------------------------------------------------------
(* ParallelExecutor::execute_load_balanced (src/src/async_utils.rs): one    *)
(* call.  The AsyncTaskPool it builds from max_concurrent is never used.    *)

\* ParallelExecutor::execute_load_balanced(task_factory, task_count, max_concurrent)
LoadInit ==
    /\ EngineConstructed
    /\ NoElection
    /\ NoProver
    /\ NoGuest
    /\ SupportIdle("load")
    /\ task_count \in 0..MaxTasks
    /\ load_max_concurrent \in 0..MaxConcurrent
    /\ handles = <<>>
    /\ load_results = 0
    /\ load_pc = "spawning"

\* one iteration of for i in 0..task_count: spawn(async move { factory(i).await })
SpawnTask ==
    /\ load_pc = "spawning"
    /\ Len(handles) < task_count
    /\ handles' = Append(handles, "running")
    /\ UNCHANGED <<core_vars, task_count, load_max_concurrent, load_results, load_pc>>
    /\ SupportFrame("load")

\* a spawned task ends with Ok or Err
LoadTaskEnds(i, outcome) ==
    /\ i \in 1..Len(handles)
    /\ handles[i] = "running"
    /\ handles' = [handles EXCEPT ![i] = outcome]
    /\ UNCHANGED <<core_vars, task_count, load_max_concurrent, load_results, load_pc>>
    /\ SupportFrame("load")

\* the loop is over: Self::execute_with_timeout(handles, 30 s) is called
ExecuteWithTimeout ==
    /\ load_pc = "spawning"
    /\ Len(handles) = task_count
    /\ load_pc' = "awaiting"
    /\ UNCHANGED <<core_vars, task_count, load_max_concurrent, handles, load_results>>
    /\ SupportFrame("load")

\* execute_with_timeout: task.await of the next handle returns; an Err ends the call
AwaitHandle ==
    /\ load_pc = "awaiting"
    /\ load_results < Len(handles)
    /\ handles[load_results + 1] # "running"
    /\ IF handles[load_results + 1] = "ok"
       THEN load_results' = load_results + 1 /\ load_pc' = load_pc
       ELSE load_results' = load_results /\ load_pc' = "Err"
    /\ UNCHANGED <<core_vars, task_count, load_max_concurrent, handles>>
    /\ SupportFrame("load")

\* execute_with_timeout: every handle was awaited, Ok(results)
LoadReturns ==
    /\ load_pc = "awaiting"
    /\ load_results = Len(handles)
    /\ load_pc' = "Ok"
    /\ UNCHANGED <<core_vars, task_count, load_max_concurrent, handles, load_results>>
    /\ SupportFrame("load")

\* execute_with_timeout: the 30 seconds pass first, Err("Parallel execution
\* timed out"); the handles are dropped and the tasks run on
LoadTimesOut ==
    /\ load_pc = "awaiting"
    /\ load_pc' = "Err"
    /\ UNCHANGED <<core_vars, task_count, load_max_concurrent, handles, load_results>>
    /\ SupportFrame("load")

LoadNext ==
    \/ SpawnTask
    \/ \E i \in 1..MaxTasks : \E outcome \in {"ok", "err"} : LoadTaskEnds(i, outcome)
    \/ ExecuteWithTimeout
    \/ AwaitHandle
    \/ LoadReturns
    \/ LoadTimesOut

LoadSpec == LoadInit /\ [][LoadNext]_vars

-----------------------------------------------------------------------------
(* FutureRacer::select_with_timeout (src/src/async_utils.rs): one call with *)
(* two futures.  The select! is awaited first; the timeout is then put      *)
(* around a value that is already there.                                    *)

\* the futures of a call: each completes at a tick with Ok or Err, or never
SelectFutures ==
    [ready_at : 0..MaxDelay, outcome : {"Ok", "Err"}]
    \cup {[ready_at |-> 0, outcome |-> "Never"]}

\* whether the future of index i has completed by the tick `now'
SelectReady(i, now) ==
    select_futures[i].outcome # "Never" /\ select_futures[i].ready_at <= now

\* FutureRacer::select_with_timeout(fut1, fut2, timeout_duration) is called
SelectInit ==
    /\ EngineConstructed
    /\ NoElection
    /\ NoProver
    /\ NoGuest
    /\ SupportIdle("select")
    /\ select_futures \in [1..2 -> SelectFutures]
    /\ select_timeout \in 0..MaxTimeout
    /\ select_elapsed = 0
    /\ select_result = <<>>

\* a tick passes while the select! waits for the first of its futures
SelectTick ==
    /\ select_result = <<>>
    /\ \A i \in 1..2 : ~SelectReady(i, select_elapsed)
    /\ select_elapsed < MaxDelay
    /\ select_elapsed' = select_elapsed + 1
    /\ UNCHANGED <<core_vars, select_futures, select_timeout, select_result>>
    /\ SupportFrame("select")

\* a branch of the select! completes: result? returns an Err at once, an Ok
\* becomes Either::Left / Either::Right, and timeout(timeout_duration,
\* async { Ok(selection) }) returns it on its first poll
SelectBranchCompletes(i) ==
    /\ select_result = <<>>
    /\ SelectReady(i, select_elapsed)
    /\ select_result' = <<[kind |-> select_futures[i].outcome, side |-> i,
                           at |-> select_elapsed]>>
    /\ UNCHANGED <<core_vars, select_futures, select_timeout, select_elapsed>>
    /\ SupportFrame("select")

SelectNext ==
    \/ SelectTick
    \/ \E i \in 1..2 : SelectBranchCompletes(i)

SelectSpec == SelectInit /\ [][SelectNext]_vars

-----------------------------------------------------------------------------
(* What the properties below speak of *)

\* every block of the chain had received validate_block = true before it was applied
AllAppliedValidated == \A i \in 1..Len(validated_log) : validated_log[i]

\* every applied block was validated, carries its height and links to its predecessor
LinkedValidatedChain ==
    /\ AllAppliedValidated
    /\ \A i \in 1..Len(blocks) :
           /\ blocks[i].header.block_number = i
           /\ blocks[i].header.previous_hash = get_last_block_hash(SubSeq(blocks, 1, i - 1))

\* current_state after the i-th applied block
StateAfter(i) == IF i < Len(blocks) THEN state_log[i + 1] ELSE current_state

\* the accounts before the k-th transaction of the i-th applied block, as the
\* engine's own loop computes them
AccountsBefore(i, k) ==
    ExecuteLoop([accounts |-> state_log[i].accounts, overflow |-> FALSE],
                SubSeq(blocks[i].transactions, 1, k - 1)).accounts

\* whether the sender of tx holds at least tx.value in acc
SenderHolds(acc, tx) == tx.from \in DOMAIN acc /\ acc[tx.from].balance >= tx.value

\* The transfer as it is specified, on unbounded integers: debit the sender
\* and increment its nonce, create the recipient if absent, credit it.
SpecTransfer(acc, tx) ==
    LET a1 == [acc EXCEPT ![tx.from] =
                   [balance |-> @.balance - tx.value, nonce |-> @.nonce + 1]]
        a2 == IF tx.to \in DOMAIN a1 THEN a1 ELSE a1 @@ (tx.to :> NewAccount(0))
    IN  [a2 EXCEPT ![tx.to].balance = @ + tx.value]

RECURSIVE SpecTransfers(_, _)
\* the specified transfers in block order; defined while every sender holds its value
SpecTransfers(acc, txs) ==
    IF Len(txs) = 0 THEN acc
    ELSE SpecTransfers(SpecTransfer(acc, txs[1]), Tail(txs))

RECURSIVE AllSendersHold(_, _)
\* every transaction's sender holds balance >= value at its turn
AllSendersHold(acc, txs) ==
    IF Len(txs) = 0 THEN TRUE
    ELSE /\ SenderHolds(acc, txs[1])
         /\ AllSendersHold(SpecTransfer(acc, txs[1]), Tail(txs))

\* some account's balance differs between pre and post (an absent account holds 0)
BalanceChanged(pre, post) ==
    \E a \in DOMAIN post :
        post[a].balance # (IF a \in DOMAIN pre THEN pre[a].balance ELSE 0)

RECURSIVE AttestedStake(_)
\* total stake weight of a list of validator signatures
AttestedStake(sigs) ==
    IF Len(sigs) = 0 THEN 0 ELSE sigs[1].stake_weight + AttestedStake(Tail(sigs))

\* the Merkle root over a block's transactions in order
TransactionsRoot(block) ==
    merkle_root([k \in 1..Len(block.transactions) |-> bincode(block.transactions[k])])

\* the blocks a step's produce_block returned to the caller
ProducedBlocks == {p.block : p \in proposed'} \ {p.block : p \in proposed}

\* a step that drained the pool or returned a block: a step of produce_block
ProduceBlockStep ==
    ProducedBlocks # {} \/ Len(pending_transactions') < Len(pending_transactions)

\* how many of the selections a..b of the run elected the address
SelectionCount(address, a, b) ==
    Cardinality({k \in a..b : selections[k].kind = "Ok" /\ selections[k].address = address})

RECURSIVE SumOf(_)
\* the sum of a list of numbers, on unbounded integers
SumOf(values) == IF Len(values) = 0 THEN 0 ELSE values[1] + SumOf(Tail(values))

\* the proofs form a chain: each starts from the state root its predecessor
\* ended with, at the next block number
IsProofChain(proofs) ==
    \A k \in 2..Len(proofs) :
        /\ proofs[k].input.prev_state_root
               = proofs[k - 1].result.public_outputs.new_state_root
        /\ proofs[k].input.block_number = proofs[k - 1].input.block_number + 1

-----------------------------------------------------------------------------
(* Properties *)

\* C1: when every applied block had received validate_block = true, the i-th
\* applied block has block_number i.
C1_BlockNumbersStepByOne ==
    AllAppliedValidated =>
        \A i \in 1..Len(blocks) : blocks[i].header.block_number = i

\* C2: when every applied block had received validate_block = true, the first
\* applied block's previous_hash is the zero hash and every later block's
\* previous_hash is the hash of the header of the block applied before it.
C2_PreviousHashLinksChain ==
    AllAppliedValidated =>
        \A i \in 1..Len(blocks) :
            blocks[i].header.previous_hash = get_last_block_hash(SubSeq(blocks, 1, i - 1))

\* C3: of two consecutive applied blocks the later has the strictly greater
\* timestamp; stated of the chains whose blocks were all validated, numbered
\* 1, 2, ... and linked by previous_hash.
C3_TimestampsStrictlyIncrease ==
    LinkedValidatedChain =>
        \A i \in 1..(Len(blocks) - 1) :
            blocks[i + 1].header.timestamp > blocks[i].header.timestamp

\* C4: a block whose every transaction's sender holds balance >= value at its
\* turn leaves exactly the accounts of the specified sequential transfers.
C4_SufficientTransfersApplied ==
    \A i \in 1..Len(blocks) :
        AllSendersHold(state_log[i].accounts, blocks[i].transactions) =>
            StateAfter(i).accounts =
                SpecTransfers(state_log[i].accounts, blocks[i].transactions)

\* C4, the example: genesis {1: 1000, 2: 1000} and the block
\* [1 -> 2 : 100, 2 -> 3 : 50] end with balances 900, 1050 and 50.
C4_ExampleReached ==
    /\ Len(blocks) = 1
    /\ state_log[1] = GenesisState
    /\ Len(blocks[1].transactions) = 2
    /\ blocks[1].transactions[1].from = 1 /\ blocks[1].transactions[1].to = 2
    /\ blocks[1].transactions[1].value = 100
    /\ blocks[1].transactions[2].from = 2 /\ blocks[1].transactions[2].to = 3
    /\ blocks[1].transactions[2].value = 50
    /\ current_state.accounts[1].balance = 900
    /\ current_state.accounts[2].balance = 1050
    /\ current_state.accounts[3].balance = 50

\* C5: a transaction whose sender is absent or holds less than its value
\* leaves the accounts as they were before it.
C5_UnfundedTransactionNoEffect ==
    \A i \in 1..Len(blocks) : \A k \in 1..Len(blocks[i].transactions) :
        ~SenderHolds(AccountsBefore(i, k), blocks[i].transactions[k]) =>
            AccountsBefore(i, k + 1) = AccountsBefore(i, k)

\* C6: a transaction of an existing sender changes the accounts only if its
\* nonce is the sender's account nonce at that point.
C6_NonceMatchesAtExecution ==
    \A i \in 1..Len(blocks) : \A k \in 1..Len(blocks[i].transactions) :
        LET tx == blocks[i].transactions[k]
            before == AccountsBefore(i, k)
        IN  (tx.from \in DOMAIN before /\ AccountsBefore(i, k + 1) # before) =>
                tx.nonce = before[tx.from].nonce

\* C7: after an applied block that changed an account balance, state_root differs
\* from its value before the block, and after the last applied block it is
\* the state_root of that block's header.
C7_StateRootCommitsAccounts ==
    \A i \in 1..Len(blocks) :
        BalanceChanged(state_log[i].accounts, StateAfter(i).accounts) =>
            /\ StateAfter(i).state_root # state_log[i].state_root
            /\ i = Len(blocks) =>
                   current_state.state_root = blocks[i].header.state_root

\* C8: a block for which validate_block returned true carries signatures of
\* at least 2/3 of the total stake.
C8_ValidatedHasFinalityStake ==
    \A p \in proposed :
        p.validated =>
            3 * AttestedStake(p.block.validator_signatures)
                >= 2 * validator_set.total_stake

\* C9: a block for which validate_block returned true has as merkle_root the
\* Merkle root over its transactions in order.
C9_ValidatedHasMerkleRoot ==
    \A p \in proposed :
        p.validated => p.block.header.merkle_root = TransactionsRoot(p.block)

\* C10: a produced block has gas_used <= gas_limit.
C10_GasUsedWithinLimit ==
    \A p \in proposed : p.block.header.gas_used <= p.block.header.gas_limit

\* C11: produce_block puts into its block the first
\* min(max_transactions_per_block, |pending_transactions|) pending transactions
\* in queue order, and leaves in the pool exactly the others, in their order.
C11_ProduceBlockTakesQueuePrefix ==
    [][ProduceBlockStep =>
           LET len == Len(pending_transactions)
               n == IF max_transactions_per_block <= len
                    THEN max_transactions_per_block ELSE len
           IN  /\ \A b \in ProducedBlocks :
                      b.transactions = [k \in 1..n |-> pending_transactions[k]]
               /\ pending_transactions' =
                      [k \in 1..(len - n) |-> pending_transactions[n + k]]]_vars

\* C11, its case: a held block took the head of a pool that was longer than
\* max_transactions_per_block, and the next transaction is still pending.
C11_PoolLongerThanBlock ==
    \E p \in proposed :
        /\ Len(p.block.transactions) = max_transactions_per_block
        /\ Len(pending_transactions) > 0
        /\ submitted = Len(p.block.transactions) + Len(pending_transactions)

\* C12: validate_block accepts every block produce_block returns, in the
\* engine state produce_block left.
C12_ProducedBlockValidates ==
    [][\A b \in ProducedBlocks : validate_block(b)']_vars

\* C12, its case: on a chain of one block, a block produced from an empty pool
\* has been validated.
C12_EmptyBlockValidatedOnChain ==
    \E p \in proposed :
        /\ p.validated
        /\ Len(p.block.transactions) = 0
        /\ Len(blocks) > 0
        /\ p.block.header.block_number = Len(blocks) + 1

\* C14: the election is weighted by stake: over the first N heights of a run,
\* N a multiple of the total stake, a validator holding the share
\* stake / total_stake is elected for that share of the heights (with stakes
\* 2 : 1 : 1 and N = 4, twice, once and once).
C14_SelectionProportionalToStake ==
    LET validators == validator_set.validators
        total == validator_set.total_stake
    IN  \A N \in 1..Len(selections) :
            (Len(validators) > 0 /\ N % total = 0) =>
                \A i \in 1..Len(validators) :
                    SelectionCount(validators[i].address, 1, N) * total
                        = validators[i].stake * N

\* C15: select_block_producer returns Ok with the address of a validator of
\* the list when the list is not empty, returns Err when it is empty, and
\* never panics.
C15_SelectionIsMemberOrError ==
    LET validators == validator_set.validators
    IN  \A k \in 1..Len(selections) :
            /\ selections[k].kind # "Panic"
            /\ Len(validators) > 0 =>
                   /\ selections[k].kind = "Ok"
                   /\ \E i \in 1..Len(validators) :
                          validators[i].address = selections[k].address
            /\ Len(validators) = 0 => selections[k].kind = "Err"

\* C15, its case: the engine has no validators and the election returned Err.
C15_EmptyListGaveError ==
    /\ Len(validator_set.validators) = 0
    /\ Len(selections) = MaxSelections
    /\ \A k \in 1..Len(selections) : selections[k].kind = "Err"

C17_ComposedRootIsLastRoot ==
    \A r \in 1..Len(recursive_proof) :
        LET proofs == recursive_proof[r].proofs
        IN  Len(proofs) >= 1 =>
                recursive_proof[r].result.public_outputs.new_state_root
                    = proofs[Len(proofs)].result.public_outputs.new_state_root

C19_ComposedProofsFormChain ==
    \A r \in 1..Len(recursive_proof) : IsProofChain(recursive_proof[r].proofs)

\* C20: when a transaction of the batch fails its check, whatever its
\* position, the output has success = false and new_state_root equal to the
\* input's prev_state_root.
C20_FailureKeepsPrevStateRoot ==
    \A r \in 1..Len(guest_output) :
        (\E k \in 1..Len(guest_input.transactions) :
             ~verify_transaction_signature(guest_input.transactions[k])) =>
            /\ guest_output[r].output.success = FALSE
            /\ guest_output[r].output.new_state_root = guest_input.prev_state_root

\* C22: validate_block returns false for a block at height n that carries a
\* protocol rule whose activation height is not n, so no held block for
\* which validate_block returned true carries such a rule.  (The engine has
\* no verifier for a rule's validity proof; the statement is the one about
\* activation heights.)
C22_ValidatedRulesActivateAtHeight ==
    \A p \in proposed :
        p.validated =>
            \A k \in 1..Len(p.block.protocol_updates) :
                p.block.protocol_updates[k].activation_epoch
                    = p.block.header.block_number


\* C23: the post-quantum signature round trip: for every address and
\* message sign_lms returns a signature, without error or panic, and
\* verify_lms accepts that signature for the same address and message.
C23_LmsSignThenVerify ==
    \A k \in 1..Len(lms_signatures) :
        /\ lms_signatures[k].signed.kind = "Ok"
        /\ lms_signatures[k].verified \in {"None", "Ok"}


\* C24: the pool's permits are always released: whenever no execute call is
\* in flight, available_permits() equals max_concurrent, however the past
\* calls ended (success, task error, task panic, cancellation by the
\* caller), and available_permits() never exceeds max_concurrent.
C24_PermitsReleased ==
    /\ semaphore <= max_concurrent
    /\ InFlight = {} => semaphore = max_concurrent

\* three calls have ended, one after its task panicked, one after its task
\* returned an error and one cancelled while it held a permit
C24_PanicErrorAndCancelEnded ==
    /\ InFlight = {}
    /\ \E a, b, c \in 1..Len(pool_calls) :
           /\ pool_calls[a] = "Err" /\ pool_tasks[a] = "panic"
           /\ pool_calls[b] = "Err" /\ pool_tasks[b] = "err"
           /\ pool_calls[c] = "cancelled" /\ pool_tasks[c] # "none"


\* C25: the batch processor flushes on size or on the timer, whichever comes
\* first: a non-empty partial batch is handed to the handler no later than
\* timeout_duration after its first item was received, also when further
\* items keep arriving at intervals shorter than timeout_duration.
C25_PartialBatchFlushedInTime ==
    current_batch # <<>> => first_item_age <= timeout_duration


\* C26: execute_with_backoff retries a failing operation: when the task
\* returns an error and fewer than max_retries attempts have been made the
\* task is invoked again, so an error is returned only after max_retries
\* attempts.
C26_ErrorOnlyAfterMaxRetries ==
    backoff_result = "Err" => Len(invocations) = max_retries


\* C27: get_performance_summary().total_errors equals the number of
\* record_error calls made so far, repeated error types counted each time,
\* in every state of the monitor, also before any benchmark is recorded.
C27_TotalErrorsCountsRecordErrorCalls ==
    get_performance_summary.total_errors = record_error_calls


\* C28: the hybrid encoding round trip: for every value x and both values
\* of debug_mode, decode_hybrid(encode_hybrid(x, debug_mode)) returns x; the
\* bytes written in JSON mode are never decoded by the binary-first path
\* into another value.
C28_HybridRoundTrip ==
    hybrid_decoded # <<>> =>
        /\ hybrid_decoded[1].kind = "Ok"
        /\ hybrid_decoded[1].value = <<hybrid_value>>


\* C29: process_stream returns the results in stream order, for every
\* max_concurrent >= 1 and every order in which the futures complete: the
\* result of an earlier item stands before the result of a later item.
C29_ResultsInStreamOrder ==
    (stream_pc = "Ok" /\ stream_max_concurrent >= 1) =>
        \A i, j \in 1..Len(results) : i < j => results[i] < results[j]


\* C30: race_first_success returns Ok whenever at least one of the raced
\* futures completes with Ok, and returns Err only when the list is empty
\* or every future fails: it never returns Err for a list holding a future
\* that completes with Ok.
C30_ErrOnlyWhenNoFutureSucceeds ==
    \A r \in 1..Len(race_result) :
        race_result[r].kind = "Err" =>
            \A i \in 1..Len(race_futures) : race_futures[i] # "Ok"



\* C32: the number of tasks started through AsyncTaskPool::execute that are
\* still running is at most max_concurrent in every interleaving, also when
\* the execute future of a caller was dropped (cancelled, or abandoned by
\* try_join) before its spawned task finished.
RunningTasks == {c \in 1..Len(pool_tasks) : pool_tasks[c] = "running"}

C32_RunningTasksWithinMaxConcurrent ==
    Cardinality(RunningTasks) <= max_concurrent



\* C36: when every processor call succeeds, process_stream returns exactly
\* one result per stream item, for every max_concurrent including 0: no step
\* of the call loses or duplicates an item, so the items still in the
\* stream, in flight, held for a slot and already turned into a result
\* always add up to the same number.
StreamItemsAccountedFor ==
    Len(stream) + Cardinality(buffer) + Len(completed) + Len(held_item) + Len(results)

C36_OneResultPerItem ==
    [][failing_items = {} => StreamItemsAccountedFor' = StreamItemsAccountedFor]_vars



\* C35: execute_with_backoff always ends by returning, after at most
\* max_retries invocations of the task (none when max_retries = 0, where it
\* returns an error): it returns Ok exactly when an attempt succeeded and
\* makes no attempt after it, attempt k (counted from 0) runs under a
\* timeout of base_timeout_ms * 2^k, and max_retries consecutive timeouts
\* end in an error.
C35_BackoffSchedule ==
    /\ backoff_result \in {"running", "Ok", "Err"}
    /\ Len(invocations) <= max_retries
    /\ max_retries = 0 => backoff_result \in {"running", "Err"}
    /\ \A k \in 1..Len(invocations) :
           /\ invocations[k].timeout = invocations[1].timeout * 2^(k - 1)
           /\ invocations[k].outcome = "ok" => k = Len(invocations) /\ backoff_result = "Ok"
    /\ backoff_result = "Ok" => invocations[Len(invocations)].outcome = "ok"
    /\ ( /\ max_retries > 0
         /\ Len(invocations) = max_retries
         /\ \A k \in 1..Len(invocations) : invocations[k].outcome = "timeout" )
       => backoff_result = "Err"



\* C37: apply_block never increases the sum of all account balances: the
\* accounts after a block was applied hold in total at most what the
\* accounts held before it.
RECURSIVE SumBalances(_, _)
SumBalances(accounts, addresses) ==
    IF addresses = {} THEN 0
    ELSE LET a == CHOOSE x \in addresses : TRUE
         IN  accounts[a].balance + SumBalances(accounts, addresses \ {a})

TotalBalance(accounts) == SumBalances(accounts, DOMAIN accounts)

C37_ApplyBlockNeverIncreasesTotalBalance ==
    \A i \in 1..Len(blocks) :
        TotalBalance(StateAfter(i).accounts) <= TotalBalance(state_log[i].accounts)



\* C39: every block validate_block accepts for a height h names in
\* header.producer the address select_block_producer(h) elects: a block of a
\* producer that was not elected, or that is no validator, is rejected.
C39_AcceptedBlockNamesElectedProducer ==
    \A p \in proposed :
        p.validated =>
            LET elected == select_block_producer(p.block.header.block_number)
            IN  elected.kind = "Ok" /\ p.block.header.producer = elected.address



\* C38: no pending transaction is lost: a transaction that is in the pool,
\* in a block the caller holds or in a block of the chain is, after every
\* step in which the engine does not panic, still in one of the three; in
\* particular the transactions of a block validate_block rejects are back
\* in the pool once the caller has let go of the block.
SeqRange(s) == {s[k] : k \in 1..Len(s)}

TransactionsInFlight ==
    SeqRange(pending_transactions)
    \cup UNION {SeqRange(p.block.transactions) : p \in proposed}
    \cup UNION {SeqRange(blocks[i].transactions) : i \in 1..Len(blocks)}

C38_NoPendingTransactionLost ==
    [][~panicked' => TransactionsInFlight \subseteq TransactionsInFlight']_vars



\* C40: the public outputs of generate_state_transition_proof equal, for
\* every input, the outputs verify_state_transition computes for the same
\* input.  The two roots come from different hash functions (Keccak-256 in
\* the prover, the XOR folding in the guest); the formula compares the
\* outputs that depend on neither, transaction_count, gas_used and success,
\* and runs the guest on the prover's input with the all-zero root.
GuestOutputs(input) ==
    verify_state_transition([input EXCEPT !.prev_state_root = [i \in 1..32 |-> 0]]).output

C40_ProverOutputsEqualGuestOutputs ==
    \A k \in 1..Len(sub_proofs) :
        LET prover == sub_proofs[k].result.public_outputs
            guest == GuestOutputs(sub_proofs[k].input)
        IN  /\ prover.transaction_count = guest.transaction_count
            /\ prover.gas_used = guest.gas_used
            /\ prover.success = guest.success



\* C33: execute_load_balanced never has more than max_concurrent of its
\* task_count tasks running at the same time.
C33_LoadBalancedWithinMaxConcurrent ==
    Cardinality({i \in 1..Len(handles) : handles[i] = "running"}) <= load_max_concurrent


\* C31: select_with_timeout returns a timeout error when neither future
\* completes within timeout_duration, and it never waits longer than
\* timeout_duration: while it has not returned at most timeout_duration
\* has passed, and what it returns it returns by then.
C31_SelectBoundedByTimeout ==
    /\ select_result = <<>> => select_elapsed <= select_timeout
    /\ \A r \in 1..Len(select_result) :
           /\ select_result[r].at <= select_timeout
           /\ (\A i \in 1..2 : ~SelectReady(i, select_timeout))
                  => select_result[r].kind = "Timeout"



\* C34: once start_processing has been called, every item add_item accepted
\* is passed to the handler in exactly one batch, in send order, whatever
\* the earlier handler calls returned and also when the channel closes: the
\* batches handled, the current batch and the channel always hold the items
\* sent, each once and in order; and every accepted item is eventually
\* handled.
RECURSIVE Flatten(_)
Flatten(seqs) == IF seqs = <<>> THEN <<>> ELSE Head(seqs) \o Flatten(Tail(seqs))

ItemsHandled == Flatten(handled)

=============================================================================
